---- MODULE Spec2Model ----
(***************************************************************************)
(* Correlation and budget calculation engine of AluQuote                   *)
(* (backend/budget_calculator.py, backend/cost_database.py) and the        *)
(* project endpoints of backend/main.py that call it.                      *)
(*                                                                         *)
(* Python floats are modelled as exact rationals [n |-> numerator,         *)
(* d |-> denominator] in lowest terms; Python str values are TLA+ strings; *)
(* None is the empty tuple where a dict is expected, NoneStr where a str   *)
(* is expected and NoneNum where a number is expected.                     *)
(***************************************************************************)
EXTENDS Integers, Sequences, FiniteSets, TLC

VARIABLES
    params,            \* self.params of the BudgetCalculator
    line_items,        \* self.line_items
    summary,           \* self.summary (<<>> is None)
    correlation_log,   \* self.correlation_log
    dxf_data,          \* argument dxf_data of calculate_budget
    pdf_data,          \* argument pdf_data of calculate_budget
    surface_treatment, \* argument surface_treatment of calculate_budget
    has_dxf,           \* local has_dxf of calculate_budget
    has_pdf,           \* local has_pdf of calculate_budget
    correlations,      \* local correlations of calculate_budget
    line_id,           \* local line_id of calculate_budget
    pos,               \* position of the for loop over correlations
    result,            \* the dicts calculate_budget has returned, as their
                       \* holders see them now
    returned,          \* the same dicts as they were when returned
    pc,                \* "idle", "pricing", "done" or "raised"
    projects_db,       \* projects_db of main.py
    response,          \* the last HTTP response of main.py
    cost_db,           \* the tables of the global cost_db of cost_database.py
    found              \* what the last call returned: the callable, its arguments, the value

\* the BudgetCalculator and one call of calculate_budget
calculator_vars == <<params, line_items, summary, correlation_log, dxf_data, pdf_data,
                     surface_treatment, has_dxf, has_pdf, correlations, line_id, pos,
                     result, returned, pc>>

\* the application state of main.py
api_vars == <<projects_db, response>>

vars == <<calculator_vars, api_vars, cost_db, found>>

---------------------------------------------------------------------------
(* Numbers *)

Abs(x) == IF x < 0 THEN -x ELSE x

RECURSIVE GCD(_, _)
GCD(a, b) == IF b = 0 THEN a ELSE GCD(b, a % b)

\* the float n/d
Rat(n, d) ==
    LET g == GCD(Abs(n), Abs(d))
        s == IF d < 0 THEN -1 ELSE 1
    IN  [n |-> s * (n \div g), d |-> s * (d \div g)]

Num(i) == [n |-> i, d |-> 1]

NoneNum == [n |-> 0, d |-> 0]

RAdd(a, b) ==
    LET g == GCD(a.d, b.d)
    IN  Rat(a.n * (b.d \div g) + b.n * (a.d \div g), (a.d \div g) * b.d)

RNeg(a) == [n |-> -a.n, d |-> a.d]

RSub(a, b) == RAdd(a, RNeg(b))

RMul(a, b) ==
    IF a.n = 0 \/ b.n = 0 THEN Num(0)
    ELSE LET g1 == GCD(Abs(a.n), b.d)
             g2 == GCD(Abs(b.n), a.d)
         IN  [n |-> (a.n \div g1) * (b.n \div g2),
              d |-> (a.d \div g2) * (b.d \div g1)]

\* a / b for b # 0
RDiv(a, b) ==
    RMul(a, IF b.n < 0 THEN [n |-> -b.d, d |-> -b.n] ELSE [n |-> b.d, d |-> b.n])

RLt(a, b) == a.n * b.d < b.n * a.d

RLe(a, b) == a.n * b.d <= b.n * a.d

RMax(a, b) == IF RLt(a, b) THEN b ELSE a

RMin(a, b) == IF RLt(b, a) THEN b ELSE a

\* int(x): truncation towards zero
PyInt(a) == IF a.n >= 0 THEN a.n \div a.d ELSE -((-a.n) \div a.d)

IMax(a, b) == IF a < b THEN b ELSE a

\* truth value of an Optional[float]: None and 0 are falsy
NumTruthy(a) == a # NoneNum /\ a.n # 0

RECURSIVE RSum(_)
RSum(s) == IF s = <<>> THEN Num(0) ELSE RAdd(RSum(SubSeq(s, 1, Len(s) - 1)), s[Len(s)])

RECURSIVE ISum(_)
ISum(s) == IF s = <<>> THEN 0 ELSE ISum(SubSeq(s, 1, Len(s) - 1)) + s[Len(s)]

---------------------------------------------------------------------------
(* Strings *)

NoneStr == "<None>"

StrTruthy(s) == s # NoneStr /\ s # ""

\* str.upper on the ASCII letters
UpperLetters ==
    "a" :> "A" @@ "b" :> "B" @@ "c" :> "C" @@ "d" :> "D" @@ "e" :> "E" @@ "f" :> "F" @@
    "g" :> "G" @@ "h" :> "H" @@ "i" :> "I" @@ "j" :> "J" @@ "k" :> "K" @@ "l" :> "L" @@
    "m" :> "M" @@ "n" :> "N" @@ "o" :> "O" @@ "p" :> "P" @@ "q" :> "Q" @@ "r" :> "R" @@
    "s" :> "S" @@ "t" :> "T" @@ "u" :> "U" @@ "v" :> "V" @@ "w" :> "W" @@ "x" :> "X" @@
    "y" :> "Y" @@ "z" :> "Z"

\* str.lower on the ASCII letters
LowerLetters ==
    "A" :> "a" @@ "B" :> "b" @@ "C" :> "c" @@ "D" :> "d" @@ "E" :> "e" @@ "F" :> "f" @@
    "G" :> "g" @@ "H" :> "h" @@ "I" :> "i" @@ "J" :> "j" @@ "K" :> "k" @@ "L" :> "l" @@
    "M" :> "m" @@ "N" :> "n" @@ "O" :> "o" @@ "P" :> "p" @@ "Q" :> "q" @@ "R" :> "r" @@
    "S" :> "s" @@ "T" :> "t" @@ "U" :> "u" @@ "V" :> "v" @@ "W" :> "w" @@ "X" :> "x" @@
    "Y" :> "y" @@ "Z" :> "z"

Digits == {"0", "1", "2", "3", "4", "5", "6", "7", "8", "9"}

\* the characters re's \s matches
Spaces == {" ", "\t", "\n", "\r"}

Ch(s, i) == SubSeq(s, i, i)

UpperCh(c) == IF c \in DOMAIN UpperLetters THEN UpperLetters[c] ELSE c

LowerCh(c) == IF c \in DOMAIN LowerLetters THEN LowerLetters[c] ELSE c

RECURSIVE Upper(_)
Upper(s) == IF s = "" THEN "" ELSE UpperCh(Ch(s, 1)) \o Upper(SubSeq(s, 2, Len(s)))

RECURSIVE Lower(_)
Lower(s) == IF s = "" THEN "" ELSE LowerCh(Ch(s, 1)) \o Lower(SubSeq(s, 2, Len(s)))

RECURSIVE LStrip(_)
LStrip(s) ==
    IF s # "" /\ Ch(s, 1) \in Spaces THEN LStrip(SubSeq(s, 2, Len(s))) ELSE s

RECURSIVE RStrip(_)
RStrip(s) ==
    IF s # "" /\ Ch(s, Len(s)) \in Spaces THEN RStrip(SubSeq(s, 1, Len(s) - 1)) ELSE s

Strip(s) == LStrip(RStrip(s))

\* needle in hay
Contains(hay, needle) ==
    \/ needle = ""
    \/ \E i \in 1..(Len(hay) - Len(needle) + 1) :
          SubSeq(hay, i, i + Len(needle) - 1) = needle

\* s with every character of the set cs replaced by the string by
RECURSIVE ReplaceChars(_, _, _)
ReplaceChars(s, cs, by) ==
    IF s = "" THEN ""
    ELSE (IF Ch(s, 1) \in cs THEN by ELSE Ch(s, 1))
         \o ReplaceChars(SubSeq(s, 2, Len(s)), cs, by)

\* re.sub(r'\s+', ' ', s)
RECURSIVE CollapseSpaces(_)
CollapseSpaces(s) ==
    IF s = "" THEN ""
    ELSE IF Ch(s, 1) \in Spaces
         THEN " " \o CollapseSpaces(LStrip(s))
         ELSE Ch(s, 1) \o CollapseSpaces(SubSeq(s, 2, Len(s)))

\* s[:n]
Prefix(s, n) == IF Len(s) <= n THEN s ELSE SubSeq(s, 1, n)

\* f"{i:02d}" for i >= 0
Fmt02d(i) == IF i < 10 THEN "0" \o ToString(i) ELSE ToString(i)

---------------------------------------------------------------------------
(* Regular expressions: a pattern is a sequence of items, each a character *)
(* class with a minimum and maximum repetition, matched greedily with      *)
(* backtracking as re does.                                                *)

One(cs) == [cls |-> cs, lo |-> 1, hi |-> 1]

Opt(cs) == [cls |-> cs, lo |-> 0, hi |-> 1]

\* hi = -1: no maximum
Star(cs) == [cls |-> cs, lo |-> 0, hi |-> -1]

Plus(cs) == [cls |-> cs, lo |-> 1, hi |-> -1]

RECURSIVE Lit(_)
Lit(s) == IF s = "" THEN <<>> ELSE <<One({Ch(s, 1)})>> \o Lit(SubSeq(s, 2, Len(s)))

\* number of consecutive characters of s from index i that are in cs, at most hi
RECURSIVE Run(_, _, _, _)
Run(cs, s, i, hi) ==
    IF hi = 0 \/ i > Len(s) \/ Ch(s, i) \notin cs THEN 0
    ELSE 1 + Run(cs, s, i + 1, hi - 1)

\* index after the match of items k.. of pat at index i of s, 0 when none
RECURSIVE MatchAt(_, _, _, _)
RECURSIVE TryRun(_, _, _, _, _)
MatchAt(pat, k, s, i) ==
    IF k > Len(pat) THEN i
    ELSE TryRun(pat, k, s, i, Run(pat[k].cls, s, i, pat[k].hi))

TryRun(pat, k, s, i, n) ==
    IF n < pat[k].lo THEN 0
    ELSE LET r == MatchAt(pat, k + 1, s, i + n)
         IN  IF r # 0 THEN r ELSE TryRun(pat, k, s, i, n - 1)

\* the first match of pat in s that starts at index i or later, NoneStr when
\* there is none
RECURSIVE SearchFrom(_, _, _)
SearchFrom(pat, s, i) ==
    IF i > Len(s) + 1 THEN NoneStr
    ELSE IF i <= Len(s) /\ pat[1].lo > 0 /\ Ch(s, i) \notin pat[1].cls
    THEN SearchFrom(pat, s, i + 1)
    ELSE LET e == MatchAt(pat, 1, s, i)
         IN  IF e # 0 THEN SubSeq(s, i, e - 1) ELSE SearchFrom(pat, s, i + 1)

\* re.search(pat, s).group(0), NoneStr when there is no match
ReSearch(pat, s) == SearchFrom(pat, s, 1)

\* int(s) for a string of digits
RECURSIVE DigitsToInt(_)
DigitsToInt(s) ==
    IF s = "" THEN 0
    ELSE 10 * DigitsToInt(SubSeq(s, 1, Len(s) - 1))
         + (CHOOSE v \in 0..9 : ToString(v) = Ch(s, Len(s)))

RECURSIVE Pow10(_)
Pow10(k) == IF k = 0 THEN 1 ELSE 10 * Pow10(k - 1)

\* round(x, ndigits): the multiple of 10^-ndigits nearest to x, the even one
\* of the two when x is halfway
PyRound(x, ndigits) ==
    LET s == Pow10(ndigits)
        y == RMul(x, Num(s))
        q == y.n \div y.d
        r == y.n - q * y.d
    IN  IF 2 * r > y.d \/ (2 * r = y.d /\ q % 2 = 1) THEN Rat(q + 1, s) ELSE Rat(q, s)

---------------------------------------------------------------------------
(* Cost database (cost_database.py) *)

\* profiles_data: <<code, designation, kg/ml in 1/100, m2/ml in 1/1000, and in
\* 1/100: pr_unit, fabrico, montagem, pintura, m_elev, consum, transp>>
profiles_data == <<
    <<"0480040011", "IPE 300", 4220, 1160, 85, 25, 20, 1300, 5, 4, 3>>,
    <<"0480040009", "IPE 240", 3070, 922, 85, 25, 20, 1300, 5, 4, 3>>,
    <<"0480040015", "IPE 450", 7760, 1610, 90, 25, 20, 1300, 5, 4, 3>>,
    <<"0480040008", "IPE 220", 2620, 848, 85, 25, 20, 1300, 5, 4, 3>>,
    <<"0480040010", "IPE 270", 3070, 920, 85, 25, 20, 1300, 5, 4, 3>>,
    <<"0480040004", "IPE 140", 1290, 551, 85, 25, 20, 1300, 5, 4, 3>>,
    <<"0480040003", "IPE 120", 1040, 475, 85, 25, 20, 1300, 5, 4, 3>>,
    <<"0480040005", "IPE 160", 1580, 623, 85, 25, 20, 1300, 5, 4, 3>>,
    <<"0480040006", "IPE 180", 1880, 699, 85, 25, 20, 1300, 5, 4, 3>>,
    <<"0480040007", "IPE 200", 2240, 773, 85, 25, 20, 1300, 5, 4, 3>>,
    <<"0480040012", "IPE 330", 4910, 1252, 85, 25, 20, 1300, 5, 4, 3>>,
    <<"0480040013", "IPE 360", 5710, 1356, 85, 25, 20, 1300, 5, 4, 3>>,
    <<"0480040014", "IPE 400", 6630, 1467, 90, 25, 20, 1300, 5, 4, 3>>,
    <<"0480040016", "IPE 500", 9070, 1782, 90, 25, 20, 1300, 5, 4, 3>>,
    <<"0480040017", "IPE 550", 10600, 1944, 90, 25, 20, 1300, 5, 4, 3>>,
    <<"0480040018", "IPE 600", 12200, 2106, 90, 25, 20, 1300, 5, 4, 3>>,
    <<"0480030010", "HEB 100", 2040, 567, 85, 25, 20, 1300, 5, 4, 3>>,
    <<"0480030011", "HEB 120", 2670, 686, 85, 25, 20, 1300, 5, 4, 3>>,
    <<"0480030012", "HEB 140", 3370, 805, 85, 25, 20, 1300, 5, 4, 3>>,
    <<"0480030013", "HEB 160", 4260, 924, 85, 25, 20, 1300, 5, 4, 3>>,
    <<"0480030014", "HEB 180", 5120, 1043, 85, 25, 20, 1300, 5, 4, 3>>,
    <<"0480030015", "HEB 200", 6130, 1162, 85, 25, 20, 1300, 5, 4, 3>>,
    <<"0480030016", "HEB 220", 7150, 1294, 85, 25, 20, 1300, 5, 4, 3>>,
    <<"0480030017", "HEB 240", 8320, 1426, 85, 25, 20, 1300, 5, 4, 3>>,
    <<"0480030018", "HEB 260", 9300, 1545, 85, 25, 20, 1300, 5, 4, 3>>,
    <<"0480030019", "HEB 280", 10300, 1664, 85, 25, 20, 1300, 5, 4, 3>>,
    <<"0480030020", "HEB 300", 11700, 1783, 85, 25, 20, 1300, 5, 4, 3>>,
    <<"0480030021", "HEB 320", 12700, 1889, 90, 25, 20, 1300, 5, 4, 3>>,
    <<"0480030022", "HEB 340", 13400, 1969, 90, 25, 20, 1300, 5, 4, 3>>,
    <<"0480030023", "HEB 360", 14200, 2049, 90, 25, 20, 1300, 5, 4, 3>>,
    <<"0480030024", "HEB 400", 15500, 2196, 90, 25, 20, 1300, 5, 4, 3>>,
    <<"0480030025", "HEB 450", 17100, 2396, 90, 25, 20, 1300, 5, 4, 3>>,
    <<"0480030026", "HEB 500", 18700, 2596, 90, 25, 20, 1300, 5, 4, 3>>,
    <<"0480020010", "HEA 100", 1670, 560, 85, 25, 20, 1300, 5, 4, 3>>,
    <<"0480020011", "HEA 120", 1990, 666, 85, 25, 20, 1300, 5, 4, 3>>,
    <<"0480020012", "HEA 140", 2470, 772, 85, 25, 20, 1300, 5, 4, 3>>,
    <<"0480020013", "HEA 160", 3040, 878, 85, 25, 20, 1300, 5, 4, 3>>,
    <<"0480020014", "HEA 180", 3550, 984, 85, 25, 20, 1300, 5, 4, 3>>,
    <<"0480020015", "HEA 200", 4230, 1090, 85, 25, 20, 1300, 5, 4, 3>>,
    <<"0480020016", "HEA 220", 5050, 1209, 85, 25, 20, 1300, 5, 4, 3>>,
    <<"0480020017", "HEA 240", 6030, 1328, 85, 25, 20, 1300, 5, 4, 3>>,
    <<"0480020018", "HEA 260", 6820, 1447, 85, 25, 20, 1300, 5, 4, 3>>,
    <<"0480020019", "HEA 280", 7640, 1566, 85, 25, 20, 1300, 5, 4, 3>>,
    <<"0480020020", "HEA 300", 8830, 1685, 85, 25, 20, 1300, 5, 4, 3>>,
    <<"0480050005", "UPN 80", 864, 362, 85, 25, 20, 1300, 5, 4, 3>>,
    <<"0480050006", "UPN 100", 1060, 424, 85, 25, 20, 1300, 5, 4, 3>>,
    <<"0480050007", "UPN 120", 1340, 494, 85, 25, 20, 1300, 5, 4, 3>>,
    <<"0480050008", "UPN 140", 1600, 564, 85, 25, 20, 1300, 5, 4, 3>>,
    <<"0480050009", "UPN 160", 1880, 634, 85, 25, 20, 1300, 5, 4, 3>>,
    <<"0480050010", "UPN 180", 2200, 710, 85, 25, 20, 1300, 5, 4, 3>>,
    <<"0480050011", "UPN 200", 2530, 786, 85, 25, 20, 1300, 5, 4, 3>>,
    <<"0480050012", "UPN 220", 2940, 862, 85, 25, 20, 1300, 5, 4, 3>>,
    <<"0480050013", "UPN 240", 3320, 938, 85, 25, 20, 1300, 5, 4, 3>>,
    <<"0480050014", "UPN 260", 3790, 1014, 85, 25, 20, 1300, 5, 4, 3>>,
    <<"0480050015", "UPN 280", 4180, 1090, 85, 25, 20, 1300, 5, 4, 3>>,
    <<"0480050016", "UPN 300", 4620, 1166, 85, 25, 20, 1300, 5, 4, 3>>,
    <<"0550010060", "TUBO RED. 88.9*3.2", 676, 280, 125, 25, 20, 1300, 5, 4, 3>>,
    <<"0550010050", "TUBO RED. 60.3*3.2", 451, 190, 125, 25, 20, 1300, 5, 4, 3>>,
    <<"0550010070", "TUBO RED. 114.3*3.6", 983, 360, 125, 25, 20, 1300, 5, 4, 3>>,
    <<"0550010080", "TUBO RED. 139.7*4.0", 1340, 440, 125, 25, 20, 1300, 5, 4, 3>>,
    <<"0550010090", "TUBO RED. 168.3*4.5", 1820, 530, 125, 25, 20, 1300, 5, 4, 3>>,
    <<"0550020040", "RHS 100x50x3", 671, 300, 125, 25, 20, 1300, 5, 4, 3>>,
    <<"0550020050", "RHS 100x50x4", 859, 300, 125, 25, 20, 1300, 5, 4, 3>>,
    <<"0550020060", "RHS 120x60x4", 1070, 360, 125, 25, 20, 1300, 5, 4, 3>>,
    <<"0550020070", "RHS 150x100x5", 1860, 500, 125, 25, 20, 1300, 5, 4, 3>>,
    <<"0550020080", "RHS 200x100x5", 2320, 600, 125, 25, 20, 1300, 5, 4, 3>>,
    <<"0550020090", "RHS 200x100x6", 2740, 600, 125, 25, 20, 1300, 5, 4, 3>>,
    <<"0550020100", "RHS 250x150x6", 3660, 800, 125, 25, 20, 1300, 5, 4, 3>>,
    <<"0550020110", "RHS 300x200x8", 6050, 1000, 125, 25, 20, 1300, 5, 4, 3>>,
    <<"0550030040", "SHS 60x60x3", 529, 240, 125, 25, 20, 1300, 5, 4, 3>>,
    <<"0550030050", "SHS 80x80x4", 922, 320, 125, 25, 20, 1300, 5, 4, 3>>,
    <<"0550030060", "SHS 100x100x4", 1170, 400, 125, 25, 20, 1300, 5, 4, 3>>,
    <<"0550030070", "SHS 100x100x5", 1440, 400, 125, 25, 20, 1300, 5, 4, 3>>,
    <<"0550030080", "SHS 120x120x5", 1750, 480, 125, 25, 20, 1300, 5, 4, 3>>,
    <<"0550030090", "SHS 150x150x6", 2640, 600, 125, 25, 20, 1300, 5, 4, 3>>,
    <<"0550030100", "SHS 200x200x8", 4770, 800, 125, 25, 20, 1300, 5, 4, 3>>,
    <<"0410010013", "MADRE Z 170*56*15 ESP. 1.5MM", 354, 604, 115, 0, 20, 0, 5, 4, 3>>,
    <<"0410010005", "MADRE C 170*56*15 ESP. 1.5MM", 354, 604, 115, 0, 20, 0, 5, 4, 3>>,
    <<"0410010015", "MADRE C 220*68*18 ESP. 2MM", 585, 750, 115, 0, 20, 0, 5, 4, 3>>,
    <<"0410010016", "MADRE Z 200*60*15 ESP. 2MM", 510, 680, 115, 0, 20, 0, 5, 4, 3>>,
    <<"0410010017", "MADRE Z 250*70*20 ESP. 2.5MM", 785, 820, 115, 0, 20, 0, 5, 4, 3>>,
    <<"0410020001", "OMEGA 50", 227, 388, 120, 0, 20, 0, 5, 4, 3>>,
    <<"0410020002", "OMEGA 80", 315, 450, 120, 0, 20, 0, 5, 4, 3>>,
    <<"0240120008", "CHAPA PRETA 8MM", 6280, 1000, 180, 25, 20, 1300, 5, 4, 3>>,
    <<"0240120010", "CHAPA PRETA 10MM", 7850, 1000, 180, 25, 20, 1300, 5, 4, 3>>,
    <<"0240120012", "CHAPA PRETA 12MM", 9420, 1000, 180, 25, 20, 1300, 5, 4, 3>>,
    <<"0240120013", "CHAPA PRETA 15MM", 12000, 2000, 180, 25, 20, 1300, 5, 4, 3>>,
    <<"0240120020", "CHAPA PRETA 20MM", 15700, 2000, 180, 25, 20, 1300, 5, 4, 3>>,
    <<"0240120025", "CHAPA PRETA 25MM", 19600, 2000, 180, 25, 20, 1300, 5, 4, 3>>
>>

\* SteelProfile(...) of one row of profiles_data
SteelProfile(row) ==
    [code |-> row[1],
     designation |-> row[2],
     weight_per_meter |-> Rat(row[3], 100),
     area_per_meter |-> Rat(row[4], 1000),
     price_material |-> Rat(row[5], 100),
     price_fabrication |-> Rat(row[6], 100),
     price_assembly |-> Rat(row[7], 100),
     price_painting |-> Rat(row[8], 100),
     price_lifting |-> Rat(row[9], 100),
     price_consumables |-> Rat(row[10], 100),
     price_transport |-> Rat(row[11], 100)]

\* _normalize_profile_name without upper()
NormalizeProfileNameKeepingCase(name) ==
    ReplaceChars(CollapseSpaces(Strip(name)), {"*", "×"}, "X")

\* CostDatabase._normalize_profile_name
NormalizeProfileName(name) ==
    ReplaceChars(CollapseSpaces(Strip(Upper(name))), {"*", "×"}, "X")

\* d[k] = v on a dict kept as the sequence of its <<key, value>> pairs in
\* insertion order
DictPut(d, k, v) ==
    IF \E j \in 1..Len(d) : d[j][1] = k
    THEN [j \in 1..Len(d) |-> IF d[j][1] = k THEN <<k, v>> ELSE d[j]]
    ELSE Append(d, <<k, v>>)

DictHas(d, k) == \E j \in 1..Len(d) : d[j][1] = k

DictGet(d, k) == d[CHOOSE j \in 1..Len(d) : d[j][1] = k][2]

\* the dict d1 after the assignments d1[k] = v for every <<k, v>> of the dict d2
DictMerge(d1, d2) ==
    [j \in 1..Len(d1) |->
        IF DictHas(d2, d1[j][1]) THEN <<d1[j][1], DictGet(d2, d1[j][1])>> ELSE d1[j]]
    \o SelectSeq(d2, LAMBDA e : ~DictHas(d1, e[1]))

\* the dict the rows lo..hi of profiles_data make in the loop of
\* _init_steel_profiles: for each row the normalized designation, then the code
RECURSIVE InitSteelProfiles(_, _)
InitSteelProfiles(lo, hi) ==
    IF lo = hi
    THEN LET p == SteelProfile(profiles_data[lo])
         IN  DictPut(DictPut(<<>>, NormalizeProfileName(p.designation), p), p.code, p)
    ELSE LET mid == (lo + hi) \div 2
         IN  DictMerge(InitSteelProfiles(lo, mid), InitSteelProfiles(mid + 1, hi))

\* cost_db.steel_profiles
steel_profiles == InitSteelProfiles(1, Len(profiles_data))

\* the pattern of the third lookup of find_profile
SizePattern(t) == Lit(t) \o <<Opt(Spaces), Plus(Digits)>>

ProfileTypes == <<"IPE", "HEB", "HEA", "UPN", "RHS", "SHS">>

\* the lookups of find_profile for a normalized name: exact, then the first
\* key that holds the name or is held by it, then "TYPE size"
FindNormalized(profiles, normalized) ==
    LET types == {t \in 1..Len(ProfileTypes) :
                     MatchAt(SizePattern(ProfileTypes[t]), 1, normalized, 1) # 0}
        by_pattern ==
            IF types # {}
            THEN LET t == ProfileTypes[CHOOSE x \in types : TRUE]
                     e == MatchAt(SizePattern(t), 1, normalized, 1)
                     b == MatchAt(Lit(t) \o <<Opt(Spaces)>>, 1, normalized, 1)
                     search_key == t \o " " \o SubSeq(normalized, b, e - 1)
                 IN  IF DictHas(profiles, search_key)
                     THEN <<DictGet(profiles, search_key)>>
                     ELSE <<>>
            ELSE <<>>
    IN  IF DictHas(profiles, normalized)
        THEN <<DictGet(profiles, normalized)>>
        ELSE CHOOSE r \in
                 {IF partial # {}
                  THEN <<profiles[CHOOSE j \in partial : \A h \in partial : j <= h][2]>>
                  ELSE by_pattern :
                     partial \in {{j \in 1..Len(profiles) :
                                      \/ Contains(profiles[j][1], normalized)
                                      \/ Contains(normalized, profiles[j][1])}}} : TRUE

\* CostDatabase.find_profile reading the table `profiles`: <<profile>> or <<>>
\* for None
FindProfileIn(profiles, search_term) ==
    CHOOSE r \in {FindNormalized(profiles, normalized) :
                     normalized \in {NormalizeProfileName(search_term)}} : TRUE

\* CostDatabase.find_profile on the tables as constructed
FindProfile(search_term) == FindProfileIn(steel_profiles, search_term)

\* SteelProfile.calculate_cost
CalculateCost(profile, length_meters) ==
    LET weight_kg == RMul(length_meters, profile.weight_per_meter)
        area_m2 == RMul(length_meters, profile.area_per_meter)
        cost_material == RMul(weight_kg, profile.price_material)
        cost_fabrication == RMul(weight_kg, profile.price_fabrication)
        cost_assembly == RMul(weight_kg, profile.price_assembly)
        cost_lifting == RMul(weight_kg, profile.price_lifting)
        cost_consumables == RMul(weight_kg, profile.price_consumables)
        cost_transport == RMul(weight_kg, profile.price_transport)
        cost_painting == RMul(area_m2, profile.price_painting)
    IN  [designation |-> profile.designation,
         length_m |-> length_meters,
         weight_kg |-> weight_kg,
         area_m2 |-> area_m2,
         cost_material |-> cost_material,
         cost_fabrication |-> cost_fabrication,
         cost_assembly |-> cost_assembly,
         cost_painting |-> cost_painting,
         cost_lifting |-> cost_lifting,
         cost_consumables |-> cost_consumables,
         cost_transport |-> cost_transport,
         total_cost |-> RSum(<<cost_material, cost_fabrication, cost_assembly,
                              cost_painting, cost_lifting, cost_consumables,
                              cost_transport>>)]


\* the entry after SteelProfile.calculate_cost ran on it, had the method kept
\* its material cost in the entry
SteelProfileRepriced(profile, length_meters) ==
    [profile EXCEPT !.price_material = RMul(@, length_meters)]

\* the entry after SteelProfile.calculate_cost ran on it: the method assigns
\* no attribute of self
SteelProfileAfterCalculateCost(profile, length_meters) == profile

\* items_data of _init_facade_cladding: <<designation, unit, and in 1/100:
\* pr_unit, fabrico, montagem, pintura, m_elev, consum, transp>>
facade_items_data == <<
    <<"PAINEL FACHADA LA ROCHA 50MM", "m2", 2300, 0, 500, 0, 130, 0, 0>>,
    <<"PAINEL FACHADA PIR 50MM", "m2", 2200, 0, 500, 0, 130, 0, 0>>,
    <<"PAINEL FACHADA POLIURETANO 30MM", "m2", 1800, 0, 500, 0, 130, 0, 0>>,
    <<"CHAPA SIMPLES FACHADA", "m2", 1200, 0, 400, 0, 100, 0, 0>>,
    <<"CHAPA SIMPLES PRELACADA", "m2", 1400, 0, 400, 0, 100, 0, 0>>,
    <<"REMATES FACHADA", "ml", 900, 0, 0, 0, 0, 0, 0>>,
    <<"PARAFUSOS FACHADA", "un", 100, 0, 0, 0, 0, 0, 0>>,
    <<"CONTRA FACHADA CHAPA SIMPLES", "m2", 1000, 0, 300, 0, 100, 0, 0>>
>>

\* items_data of _init_roof_cladding
roof_items_data == <<
    <<"PAINEL COBERTURA LA ROCHA 50MM", "m2", 2350, 0, 500, 0, 100, 0, 0>>,
    <<"PAINEL COBERTURA LA ROCHA 80MM", "m2", 2800, 0, 500, 0, 100, 0, 0>>,
    <<"PAINEL COBERTURA PIR 50MM", "m2", 2200, 0, 500, 0, 100, 0, 0>>,
    <<"PAINEL COBERTURA POLIURETANO 30MM", "m2", 1800, 0, 500, 0, 100, 0, 0>>,
    <<"CHAPA SIMPLES COBERTURA", "m2", 1000, 0, 400, 0, 100, 0, 0>>,
    <<"ANTICUME", "ml", 700, 0, 0, 0, 0, 0, 0>>,
    <<"CUME", "ml", 1200, 0, 0, 0, 0, 0, 0>>,
    <<"PARAFUSOS COBERTURA", "un", 100, 0, 0, 0, 0, 0, 0>>,
    <<"CLARABOIA FIXA 1.0X1.0", "un", 1900, 0, 200, 0, 0, 0, 0>>,
    <<"CLARABOIA FIXA 1.5X1.5", "un", 3500, 0, 300, 0, 0, 0, 0>>,
    <<"AREA DE LUZ", "m2", 1900, 0, 200, 0, 0, 0, 0>>,
    <<"CALEIRA DUPLA ISOLADA", "ml", 3500, 0, 500, 0, 0, 0, 0>>,
    <<"CALEIRA SIMPLES GALVANIZADA", "ml", 1800, 0, 300, 0, 0, 0, 0>>
>>

\* items_data of _init_accessories
accessories_data == <<
    <<"PORTA EMERGENCIA 900X2150", "un", 28000, 0, 5000, 0, 0, 0, 0>>,
    <<"PORTA EMERGENCIA 1200X2150", "un", 35000, 0, 5000, 0, 0, 0, 0>>,
    <<"PORTA SECTORIAL 3000X3000", "un", 180000, 0, 20000, 0, 5000, 0, 0>>,
    <<"PORTA SECTORIAL 4000X4000", "un", 240000, 0, 25000, 0, 5000, 0, 0>>,
    <<"PORTAO BASCULANTE 3000X3000", "un", 120000, 0, 15000, 0, 3000, 0, 0>>,
    <<"JANELA ALUMINIO", "m2", 15000, 0, 3000, 0, 0, 0, 0>>,
    <<"PINTURA INTUMESCENTE R30", "m2", 1800, 0, 0, 0, 0, 0, 0>>,
    <<"PINTURA INTUMESCENTE R60", "m2", 2800, 0, 0, 0, 0, 0, 0>>,
    <<"PINTURA INTUMESCENTE R90", "m2", 4000, 0, 0, 0, 0, 0, 0>>,
    <<"GALVANIZACAO", "kg", 45, 0, 0, 0, 0, 0, 0>>
>>

\* CladdingItem(...) of one row of items_data
CladdingItem(row) ==
    [designation |-> row[1],
     unit |-> row[2],
     price_material |-> Rat(row[3], 100),
     price_fabrication |-> Rat(row[4], 100),
     price_assembly |-> Rat(row[5], 100),
     price_painting |-> Rat(row[6], 100),
     price_lifting |-> Rat(row[7], 100),
     price_consumables |-> Rat(row[8], 100),
     price_transport |-> Rat(row[9], 100)]

\* CostDatabase._normalize_item_name (the strings of the model carry no
\* accents, so the replacements of accented letters change nothing)
NormalizeItemName(name) == CollapseSpaces(Strip(Upper(name)))

\* the dict the loop of an _init_ method makes of the rows 1..n of items_data
RECURSIVE InitItems(_, _)
InitItems(rows, n) ==
    IF n = 0 THEN <<>>
    ELSE DictPut(InitItems(rows, n - 1), NormalizeItemName(rows[n][1]), CladdingItem(rows[n]))

\* cost_db.facade_items
facade_items == InitItems(facade_items_data, Len(facade_items_data))

\* cost_db.roof_items
roof_items == InitItems(roof_items_data, Len(roof_items_data))

\* cost_db.accessories
accessory_items == InitItems(accessories_data, Len(accessories_data))

\* CladdingItem.total_price_per_unit
TotalPricePerUnit(item) ==
    RSum(<<item.price_material, item.price_fabrication, item.price_assembly,
           item.price_painting, item.price_lifting, item.price_consumables,
           item.price_transport>>)

\* CladdingItem.calculate_cost
CladdingCalculateCost(item, quantity) ==
    [designation |-> item.designation,
     quantity |-> quantity,
     unit |-> item.unit,
     cost_material |-> RMul(quantity, item.price_material),
     cost_fabrication |-> RMul(quantity, item.price_fabrication),
     cost_assembly |-> RMul(quantity, item.price_assembly),
     cost_painting |-> RMul(quantity, item.price_painting),
     cost_lifting |-> RMul(quantity, item.price_lifting),
     cost_consumables |-> RMul(quantity, item.price_consumables),
     cost_transport |-> RMul(quantity, item.price_transport),
     total_cost |-> RMul(quantity, TotalPricePerUnit(item))]

\* the entry after CladdingItem.calculate_cost ran on it: the method assigns
\* no attribute of self
CladdingItemAfterCalculateCost(item, quantity) == item

\* normalized.split() as a set: the words of a string whose runs of spaces
\* are single
Words(s) ==
    LET starts == {h \in 1..Len(s) : Ch(s, h) # " " /\ (h = 1 \/ Ch(s, h - 1) = " ")}
        end(i) == CHOOSE h \in i..Len(s) :
                      /\ h = Len(s) \/ Ch(s, h + 1) = " "
                      /\ \A g \in i..h : Ch(s, g) # " "
    IN  {SubSeq(s, i, end(i)) : i \in starts}

\* sources of find_cladding for a category
CladdingSources(db, category) ==
    (IF category \in {"all", "facade"} THEN <<db.facade_items>> ELSE <<>>)
    \o (IF category \in {"all", "roof"} THEN <<db.roof_items>> ELSE <<>>)
    \o (IF category \in {"all", "accessories"} THEN <<db.accessories>> ELSE <<>>)

\* the loop of find_cladding over the sources, keywords being the words of
\* normalized
RECURSIVE FindInSources(_, _, _)
FindInSources(sources, normalized, keywords) ==
    IF sources = <<>> THEN <<>>
    ELSE IF DictHas(Head(sources), normalized)
    THEN <<DictGet(Head(sources), normalized)>>
    ELSE CHOOSE r \in
             {IF hits # {}
              THEN <<Head(sources)[CHOOSE j \in hits : \A h \in hits : j <= h][2]>>
              ELSE FindInSources(Tail(sources), normalized, keywords) :
                 hits \in {{j \in 1..Len(Head(sources)) :
                              \/ Contains(Head(sources)[j][1], normalized)
                              \/ Contains(normalized, Head(sources)[j][1])
                              \/ \A kw \in keywords :
                                    Contains(Head(sources)[j][1], kw)}}} : TRUE

\* CostDatabase.find_cladding: <<item>> or <<>> for None
FindCladding(db, search_term, category) ==
    CHOOSE r \in {FindInSources(sources, normalized, Words(normalized)) :
                     sources \in {CladdingSources(db, category)},
                     normalized \in {NormalizeItemName(search_term)}} : TRUE

\* the characters of the designations in the order of their code points
CodePoints == " *.0123456789ABCDEFGHIJKLMNOPQRSTUVWXYZx"

\* ord(c), as the position in CodePoints
CodePoint == [c \in {Ch(CodePoints, i) : i \in 1..Len(CodePoints)} |->
                 CHOOSE i \in 1..Len(CodePoints) : Ch(CodePoints, i) = c]

\* a[i:] < b[i:] for str
RECURSIVE StrLtFrom(_, _, _)
StrLtFrom(a, b, i) ==
    IF i > Len(b) THEN FALSE
    ELSE IF i > Len(a) THEN TRUE
    ELSE IF Ch(a, i) = Ch(b, i) THEN StrLtFrom(a, b, i + 1)
    ELSE CodePoint[Ch(a, i)] < CodePoint[Ch(b, i)]

\* a < b for str
StrLt(a, b) == StrLtFrom(a, b, 1)

\* the values of a dict whose designation no earlier value has, in order
UniqueItems(items_dict) ==
    LET firsts == SelectSeq([j \in 1..Len(items_dict) |-> j],
                            LAMBDA j : \A h \in 1..(j - 1) :
                                items_dict[h][2].designation # items_dict[j][2].designation)
    IN  [k \in 1..Len(firsts) |-> items_dict[firsts[k]][2]]

\* two lists sorted by designation merged into one, b's entry after a's when
\* their designations are equal
RECURSIVE MergeSorted(_, _)
MergeSorted(a, b) ==
    IF a = <<>> THEN b
    ELSE IF b = <<>> THEN a
    ELSE IF StrLt(Head(b).designation, Head(a).designation)
    THEN <<Head(b)>> \o MergeSorted(a, Tail(b))
    ELSE <<Head(a)>> \o MergeSorted(Tail(a), b)

\* sorted(profiles, key=lambda p: p.designation): a stable sort
RECURSIVE SortedByDesignation(_)
SortedByDesignation(profiles) ==
    IF Len(profiles) <= 1 THEN profiles
    ELSE CHOOSE sorted \in
             {MergeSorted(a, b) :
                 a \in {SortedByDesignation(SubSeq(profiles, 1, Len(profiles) \div 2))},
                 b \in {SortedByDesignation(SubSeq(profiles, Len(profiles) \div 2 + 1,
                                                   Len(profiles)))}} : TRUE

\* CostDatabase.get_all_profiles
GetAllProfiles(db) ==
    CHOOSE sorted \in {SortedByDesignation(profiles) :
                          profiles \in {UniqueItems(db.steel_profiles)}} : TRUE

\* CostDatabase.get_all_cladding
GetAllCladding(db) ==
    [facade |-> UniqueItems(db.facade_items),
     roof |-> UniqueItems(db.roof_items),
     accessories |-> UniqueItems(db.accessories)]

\* items of calculate_steel_structure_cost: the cost_detail of each entry
\* whose profile is found and whose length is > 0
RECURSIVE SteelStructureItems(_, _)
SteelStructureItems(db, profiles) ==
    IF profiles = <<>> THEN <<>>
    ELSE CHOOSE items \in
             {(IF profile # <<>> /\ RLt(Num(0), Head(profiles).length)
               THEN <<CalculateCost(profile[1], Head(profiles).length)>> ELSE <<>>)
              \o SteelStructureItems(db, Tail(profiles)) :
                 profile \in {FindProfileIn(db.steel_profiles, Head(profiles).profile)}} : TRUE

\* the dict calculate_steel_structure_cost returns for its items
SteelStructureTotals(items) ==
    [items |-> items,
     total_weight_kg |-> RSum([k \in 1..Len(items) |-> items[k].weight_kg]),
     total_weight_ton |-> RDiv(RSum([k \in 1..Len(items) |-> items[k].weight_kg]),
                               Num(1000)),
     total_cost |-> RSum([k \in 1..Len(items) |-> items[k].total_cost])]

\* calculate_steel_structure_cost
CalculateSteelStructureCost(db, profiles) ==
    CHOOSE r \in {SteelStructureTotals(items) :
                     items \in {SteelStructureItems(db, profiles)}} : TRUE

\* calculated_items of calculate_cladding_cost: the cost_detail of each entry
\* whose item is found and whose quantity is > 0
RECURSIVE CladdingItems(_, _)
CladdingItems(db, items) ==
    IF items = <<>> THEN <<>>
    ELSE CHOOSE calculated \in
             {(IF item # <<>> /\ RLt(Num(0), Head(items).quantity)
               THEN <<CladdingCalculateCost(item[1], Head(items).quantity)>> ELSE <<>>)
              \o CladdingItems(db, Tail(items)) :
                 item \in {FindCladding(db, Head(items).item, "all")}} : TRUE

\* calculate_cladding_cost
CalculateCladdingCost(db, items) ==
    CHOOSE r \in
        {[items |-> calculated_items,
          total_cost |-> RSum([k \in 1..Len(calculated_items) |->
                                  calculated_items[k].total_cost])] :
            calculated_items \in {CladdingItems(db, items)}} : TRUE

\* CostDatabase(): the tables __init__ fills
CostDatabase ==
    [steel_profiles |-> steel_profiles,
     facade_items |-> facade_items,
     roof_items |-> roof_items,
     accessories |-> accessory_items]
---------------------------------------------------------------------------
(* Correlation (BudgetCalculator.correlate_data and its helpers) *)

\* dict.get('success', False) of an analysis whose 'success' key holds True,
\* holds False or is absent
\* an input counts as successful unless it says it failed
SuccessUnlessFalse(data) == data.success # "false"

\* data.get('success', False)
Success(data) == data.success = "true"

\* the 'specifications' dict of a correlation
Specs(material, finish, thickness_mm, certifications, constraints) ==
    [material |-> material, finish |-> finish, thickness_mm |-> thickness_mm,
     certifications |-> certifications, constraints |-> constraints]

\* correlation.get('specifications', {}) of a correlation without the key
NoSpecs == Specs(NoneStr, NoneStr, NoneNum, <<>>, <<>>)

\* a BOM row dict; the rows the fallback synthesizes lack some keys, which
\* dict.get reads as None
PdfItem(reference, description, quantity, length_mm, notes) ==
    [reference |-> reference, description |-> description, quantity |-> quantity,
     length_mm |-> length_mm, material |-> NoneStr, finish |-> NoneStr,
     thickness_mm |-> NoneNum, notes |-> notes]

Correlation(dxf_profile, material_quantity, pdf_item, confidence, method, source, specs) ==
    [dxf_profile |-> dxf_profile,
     material_quantity |-> material_quantity,
     pdf_item |-> pdf_item,
     correlation_confidence |-> confidence,
     correlation_method |-> method,
     quantity_source |-> source,
     specifications |-> specs]

\* BudgetCalculator._build_pdf_lookup: the 'by_reference' dict ('all_items' is
\* pdf_items itself; 'by_description' is never read)
RECURSIVE BuildPdfLookup(_)
BuildPdfLookup(pdf_items) ==
    IF pdf_items = <<>> THEN <<>>
    ELSE LET item == pdf_items[Len(pdf_items)]
             before == BuildPdfLookup(SubSeq(pdf_items, 1, Len(pdf_items) - 1))
             ref == Strip(Upper(item.reference))
             ref_clean == ReplaceChars(ref, {"-", "_"} \cup Spaces, "")
         IN  IF ref # "" THEN DictPut(DictPut(before, ref, item), ref_clean, item)
             ELSE before

\* every constraint whatever its type
ConstraintsOfEveryType(constraints, ctype) == constraints

\* BudgetCalculator._index_constraints: the list indexed[ctype], [] when absent
ConstraintsOfType(constraints, ctype) ==
    SelectSeq(constraints, LAMBDA c : c.constraint_type = ctype)

\* the keys of the dict of _index_constraints in insertion order
RECURSIVE ConstraintTypes(_)
ConstraintTypes(constraints) ==
    IF constraints = <<>> THEN <<>>
    ELSE LET before == ConstraintTypes(SubSeq(constraints, 1, Len(constraints) - 1))
             t == constraints[Len(constraints)].constraint_type
         IN  IF \E j \in 1..Len(before) : before[j] = t THEN before
             ELSE Append(before, t)

\* the high-importance constraints collected by _extract_specifications, type
\* by type
RECURSIVE HighConstraints(_, _)
HighConstraints(constraints, types) ==
    IF types = <<>> THEN <<>>
    ELSE LET of_type == ConstraintsOfType(constraints, Head(types))
             high == SelectSeq(of_type, LAMBDA c : c.importance = "high")
         IN  [j \in 1..Len(high) |->
                 [type |-> Head(types), value |-> high[j].value,
                  context |-> Prefix(high[j].context, 100)]]
             \o HighConstraints(constraints, Tail(types))

\* BudgetCalculator._extract_specifications
ExtractSpecifications(pdf_item, constraints) ==
    LET grades == ConstraintsOfType(constraints, "material_grade")
        treatments == ConstraintsOfType(constraints, "surface_treatment")
        certs == ConstraintsOfType(constraints, "certification")
        material0 == IF pdf_item # <<>> THEN pdf_item[1].material ELSE NoneStr
        finish0 == IF pdf_item # <<>> THEN pdf_item[1].finish ELSE NoneStr
        thickness0 == IF pdf_item # <<>> THEN pdf_item[1].thickness_mm ELSE NoneNum
    IN  Specs(IF grades # <<>> /\ ~StrTruthy(material0) THEN grades[1].value
              ELSE material0,
              IF treatments # <<>> /\ ~StrTruthy(finish0) THEN treatments[1].value
              ELSE finish0,
              thickness0,
              [j \in 1..Len(certs) |-> certs[j].value],
              HighConstraints(constraints, ConstraintTypes(constraints)))

\* the matching strategies tried in the reverse order: material hint, profile
\* id, layer
MatchProfileByHintFirst(profile, by_reference, all_items) ==
    LET layer_upper == Upper(profile.layer)
        id_upper == Upper(profile.profile_id)
        by_id == {j \in 1..Len(by_reference) :
                     \/ Contains(id_upper, by_reference[j][1])
                     \/ Contains(by_reference[j][1], id_upper)}
        hint == Lower(profile.material_hint)
        by_hint == {j \in 1..Len(all_items) :
                       Contains(Lower(all_items[j].description), hint)}
    IN  IF StrTruthy(profile.material_hint) /\ by_hint # {}
        THEN <<<<all_items[CHOOSE j \in by_hint : \A h \in by_hint : j <= h]>>,
               Rat(6, 10), "material_hint">>
        ELSE IF by_id # {}
        THEN <<<<by_reference[CHOOSE j \in by_id : \A h \in by_id : j <= h][2]>>,
               Rat(8, 10), "profile_id_match">>
        ELSE IF DictHas(by_reference, layer_upper)
        THEN <<<<DictGet(by_reference, layer_upper)>>, Rat(9, 10), "layer_to_reference">>
        ELSE <<<<>>, Num(0), "none">>

\* the three matching strategies of _correlate_profile_with_pdf:
\* <<matched_pdf, confidence, method>>
MatchProfile(profile, by_reference, all_items) ==
    LET layer_upper == Upper(profile.layer)
        id_upper == Upper(profile.profile_id)
        by_id == {j \in 1..Len(by_reference) :
                     \/ Contains(id_upper, by_reference[j][1])
                     \/ Contains(by_reference[j][1], id_upper)}
        hint == Lower(profile.material_hint)
        by_hint == {j \in 1..Len(all_items) :
                       Contains(Lower(all_items[j].description), hint)}
        strategy ==
            IF DictHas(by_reference, layer_upper)
            THEN <<<<DictGet(by_reference, layer_upper)>>, Rat(9, 10), "layer_to_reference">>
            ELSE IF by_id # {}
            THEN <<<<by_reference[CHOOSE j \in by_id : \A h \in by_id : j <= h][2]>>,
                   Rat(8, 10), "profile_id_match">>
            ELSE IF StrTruthy(profile.material_hint) /\ by_hint # {}
            THEN <<<<all_items[CHOOSE j \in by_hint : \A h \in by_hint : j <= h]>>,
                   Rat(6, 10), "material_hint">>
            ELSE <<<<>>, Num(0), "none">>
    IN  strategy

\* _correlate_profile_with_pdf with the quantity source following the match:
\* a BOM row matched with confidence 0.9 becomes the source of the quantity
CorrelateProfileWithPdfByConfidence(profile, by_reference, all_items, constraints) ==
    LET strategy == MatchProfile(profile, by_reference, all_items)
    IN  Correlation(<<profile>>, <<>>, strategy[1], strategy[2], strategy[3],
                    IF RLe(Rat(9, 10), strategy[2]) THEN "pdf" ELSE "dxf",
                    ExtractSpecifications(strategy[1], constraints))

\* BudgetCalculator._correlate_profile_with_pdf
CorrelateProfileWithPdf(profile, by_reference, all_items, constraints) ==
    LET strategy == MatchProfile(profile, by_reference, all_items)
    IN  Correlation(<<profile>>, <<>>, strategy[1], strategy[2], strategy[3], "dxf",
                    ExtractSpecifications(strategy[1], constraints))

\* a block correlation with confidence 0.7 whether a row matched or not
CreateMaterialCorrelationAtFullConfidence(material_qty, by_reference, constraints) ==
    LET ref == Upper(material_qty.profile_reference)
        matched_pdf == IF DictHas(by_reference, ref)
                       THEN <<DictGet(by_reference, ref)>> ELSE <<>>
    IN  Correlation(<<>>, <<material_qty>>, matched_pdf, Rat(7, 10),
                    "block_count", "dxf",
                    ExtractSpecifications(matched_pdf, constraints))

\* BudgetCalculator._create_material_correlation
CreateMaterialCorrelation(material_qty, by_reference, constraints) ==
    LET ref == Upper(material_qty.profile_reference)
        matched_pdf == IF DictHas(by_reference, ref)
                       THEN <<DictGet(by_reference, ref)>> ELSE <<>>
    IN  Correlation(<<>>, <<material_qty>>, matched_pdf,
                    IF matched_pdf # <<>> THEN Rat(7, 10) ELSE Rat(5, 10),
                    "block_count", "dxf",
                    ExtractSpecifications(matched_pdf, constraints))

\* re.findall(r'(\d+(?:[.,]\d+)?)', s) as floats
RECURSIVE FindNumbers(_)
FindNumbers(s) ==
    IF s = "" THEN <<>>
    ELSE IF Ch(s, 1) \notin Digits THEN FindNumbers(SubSeq(s, 2, Len(s)))
    ELSE LET n1 == Run(Digits, s, 1, -1)
             sep == n1 < Len(s) /\ Ch(s, n1 + 1) \in {".", ","}
             n2 == IF sep THEN Run(Digits, s, n1 + 2, -1) ELSE 0
             whole == DigitsToInt(SubSeq(s, 1, n1))
         IN  IF n2 > 0
             THEN <<Rat(whole * Pow10(n2) + DigitsToInt(SubSeq(s, n1 + 2, n1 + 1 + n2)),
                        Pow10(n2))>>
                  \o FindNumbers(SubSeq(s, n1 + 2 + n2, Len(s)))
             ELSE <<Num(whole)>> \o FindNumbers(SubSeq(s, n1 + 1, Len(s)))

RECURSIVE RMaxOf(_)
RMaxOf(s) == IF Len(s) = 1 THEN s[1] ELSE RMax(RMaxOf(SubSeq(s, 1, Len(s) - 1)), s[Len(s)])

\* BudgetCalculator._parse_dimension: NoneNum for None
ParseDimension(dim_str) ==
    IF dim_str = "" \/ FindNumbers(dim_str) = <<>> THEN NoneNum
    ELSE RMaxOf(FindNumbers(dim_str))

\* the material-grade items of _create_fallback_correlations
MaterialItems(pdf_constraints) ==
    LET items == ConstraintsOfType(pdf_constraints, "material_grade")
        kept == Prefix(items, 10)
    IN  [i \in 1..Len(kept) |->
            Correlation(<<>>, <<>>,
                <<PdfItem("MAT-" \o Fmt02d(i), "Material: " \o kept[i].value, Num(1),
                          NoneNum, Prefix(kept[i].context, 100))>>,
                Rat(3, 10), "constraint_extraction", "estimated",
                Specs(kept[i].value, NoneStr, NoneNum, <<>>, <<>>))]

\* the surface-treatment items of _create_fallback_correlations
TreatmentItems(pdf_constraints) ==
    LET items == ConstraintsOfType(pdf_constraints, "surface_treatment")
        kept == Prefix(items, 5)
    IN  [i \in 1..Len(kept) |->
            Correlation(<<>>, <<>>,
                <<PdfItem("TRAT-" \o Fmt02d(i), "Tratamento: " \o kept[i].value, Num(1),
                          NoneNum, Prefix(kept[i].context, 100))>>,
                Rat(3, 10), "constraint_extraction", "estimated",
                Specs(NoneStr, kept[i].value, NoneNum, <<>>, <<>>))]

\* the loop over pdf_dimensions[:20] of _create_fallback_correlations, from
\* the correlations and the set unique_dims built so far
RECURSIVE DimensionItems(_, _, _)
DimensionItems(dims, correlations_, unique_dims) ==
    IF dims = <<>> THEN correlations_
    ELSE LET dim_raw == Head(dims).raw
             length == ParseDimension(dim_raw)
         IN  IF dim_raw # "" /\ dim_raw \notin unique_dims
             THEN DimensionItems(Tail(dims),
                      IF NumTruthy(length) /\ RLt(Num(50), length)
                      THEN Append(correlations_,
                               Correlation(<<>>, <<>>,
                                   <<PdfItem("DIM-" \o Fmt02d(Len(correlations_) + 1),
                                             "Elemento " \o dim_raw, Num(1), length,
                                             NoneStr)>>,
                                   Rat(25, 100), "dimension_extraction", "estimated",
                                   NoSpecs))
                      ELSE correlations_,
                      unique_dims \cup {dim_raw})
             ELSE DimensionItems(Tail(dims), correlations_, unique_dims)

\* the 'pdf_item' of the placeholder of _create_fallback_correlations
PlaceholderItem(total_constraints, total_dims) ==
    PdfItem("PROJ-01",
            "Projeto (analise automatica: " \o ToString(total_constraints)
                \o " specs, " \o ToString(total_dims) \o " dimensoes)",
            Num(1), NoneNum,
            "Dados extraidos de desenhos tecnicos. Revisao manual recomendada.")

\* the placeholder given the confidence and the method of the items extracted
\* from constraints
PlaceholderAsExtraction(total_constraints, total_dims) ==
    Correlation(<<>>, <<>>, <<PlaceholderItem(total_constraints, total_dims)>>,
                Rat(3, 10), "constraint_extraction", "estimated", NoSpecs)

\* the placeholder of _create_fallback_correlations
Placeholder(total_constraints, total_dims) ==
    Correlation(<<>>, <<>>, <<PlaceholderItem(total_constraints, total_dims)>>,
                Rat(1, 10), "placeholder", "estimated", NoSpecs)

\* the correlations _create_fallback_correlations extracts from constraints
\* and dimension strings
ExtractedItems(pdf) ==
    DimensionItems(Prefix(pdf.dimension_specs, 20),
                   MaterialItems(pdf.constraints) \o TreatmentItems(pdf.constraints),
                   {})

\* _create_fallback_correlations without its last step: nothing extracted,
\* nothing returned
CreateFallbackCorrelationsWithoutPlaceholder(pdf, dxf) == ExtractedItems(pdf)

\* BudgetCalculator._create_fallback_correlations: the correlations returned
CreateFallbackCorrelations(pdf, dxf) ==
    IF ExtractedItems(pdf) = <<>>
    THEN <<Placeholder(Len(pdf.constraints), Len(pdf.dimension_specs))>>
    ELSE ExtractedItems(pdf)

FallbackLogEntry == [action |-> "creating_fallback_items", reason |-> "no_structured_data_found"]

\* a BOM row priced as an item extracted without a quantity of its own
PdfOnlyCorrelationEstimated(pdf_item) ==
    Correlation(<<>>, <<>>, <<pdf_item>>, Rat(5, 10), "pdf_only", "estimated", NoSpecs)

\* the correlation correlate_data builds for a BOM row when there is no drawing
PdfOnlyCorrelation(pdf_item) ==
    Correlation(<<>>, <<>>, <<pdf_item>>, Rat(5, 10), "pdf_only", "pdf", NoSpecs)

\* every aggregate of the drawing, whatever its source
AllAggregates(dxf) == dxf.material_quantities

\* the aggregates the loop over dxf_materials keeps: material_qty.get('source')
\* == 'block_count'
BlockAggregates(dxf) ==
    SelectSeq(dxf.material_quantities, LAMBDA m : m.source = "block_count")

\* the correlations of the branch of correlate_data taken, before the fallback
PrimaryCorrelations(dxf, pdf) ==
    LET by_reference == BuildPdfLookup(pdf.bom_items)
        blocks == BlockAggregates(dxf)
    IN  IF Success(dxf) /\ Len(dxf.profiles) > 0
        THEN [j \in 1..Len(dxf.profiles) |->
                 CorrelateProfileWithPdf(dxf.profiles[j], by_reference, pdf.bom_items,
                                         pdf.constraints)]
             \o [j \in 1..Len(blocks) |->
                 CreateMaterialCorrelation(blocks[j], by_reference, pdf.constraints)]
        ELSE IF Success(pdf) /\ Len(pdf.bom_items) > 0
        THEN [j \in 1..Len(pdf.bom_items) |-> PdfOnlyCorrelation(pdf.bom_items[j])]
        ELSE <<>>

\* BudgetCalculator.correlate_data: the list returned
CorrelateData(dxf, pdf) ==
    IF PrimaryCorrelations(dxf, pdf) # <<>> THEN PrimaryCorrelations(dxf, pdf)
    ELSE CreateFallbackCorrelations(pdf, dxf)

\* the entries correlate_data appends to self.correlation_log
CorrelateLog(dxf, pdf) ==
    (IF Success(dxf) /\ Len(dxf.profiles) > 0
     THEN <<[action |-> "using_dxf_as_primary", dxf_profiles |-> Len(dxf.profiles),
             dxf_materials |-> Len(dxf.material_quantities)]>>
     ELSE IF Success(pdf) /\ Len(pdf.bom_items) > 0
     THEN <<[action |-> "using_pdf_as_fallback", pdf_items |-> Len(pdf.bom_items)]>>
     ELSE <<>>)
    \o (IF PrimaryCorrelations(dxf, pdf) = <<>> THEN <<FallbackLogEntry>> ELSE <<>>)

---------------------------------------------------------------------------
(* Line pricing (BudgetCalculator.calculate_budget, _calculate_line_costs) *)

ALUMINUM_DENSITY_KG_M3 == 2700

\* BudgetCalculator._treatment_to_finish
TreatmentToFinish(treatment) ==
    CASE treatment = "none" -> "Sem acabamento"
      [] treatment = "anodizing_natural" -> "Anodizacao natural"
      [] treatment = "anodizing_colored" -> "Anodizacao colorida"
      [] treatment = "powder_coating_standard" -> "Lacagem standard"
      [] treatment = "powder_coating_qualicoat" -> "Lacagem Qualicoat"
      [] treatment = "powder_coating_seaside" -> "Lacagem Seaside"
      [] OTHER -> treatment

\* the quantity read from the matched BOM row whenever there is one
SourceQuantityPreferringPdf(correlation) ==
    IF correlation.pdf_item # <<>> THEN Num(PyInt(correlation.pdf_item[1].quantity))
    ELSE IF correlation.dxf_profile # <<>> THEN correlation.dxf_profile[1].quantity
    ELSE correlation.material_quantity[1].quantity

\* the quantity read in calculate_budget from the source the correlation has
SourceQuantity(correlation) ==
    IF correlation.dxf_profile # <<>> THEN correlation.dxf_profile[1].quantity
    ELSE IF correlation.material_quantity # <<>>
    THEN correlation.material_quantity[1].quantity
    ELSE Num(PyInt(correlation.pdf_item[1].quantity))

\* int(quantity) without the floor of 1
FloorQuantityUnclamped(quantity) == PyInt(quantity)

\* max(1, int(quantity))
FloorQuantity(quantity) == IMax(1, PyInt(quantity))

\* the construction of the line raises: int() of a quantity that is None is a
\* TypeError (lines 611 and 622)
NewLineRaises(correlation) ==
    IF correlation.dxf_profile # <<>>
    THEN correlation.dxf_profile[1].quantity = NoneNum
    ELSE IF correlation.material_quantity # <<>>
    THEN correlation.material_quantity[1].quantity = NoneNum
    ELSE correlation.pdf_item # <<>> /\ correlation.pdf_item[1].quantity = NoneNum

\* the BudgetLineItem calculate_budget constructs for a correlation
NewLine(correlation, id, treatment) ==
    LET dxf_profile == correlation.dxf_profile
        material_qty == correlation.material_quantity
        pdf_item == correlation.pdf_item
        specs == correlation.specifications
    IN  [line_id |-> id,
         reference |->
             IF dxf_profile # <<>>
             THEN (IF dxf_profile[1].layer # "" THEN dxf_profile[1].layer
                   ELSE dxf_profile[1].profile_id)
             ELSE IF material_qty # <<>> THEN material_qty[1].profile_reference
             ELSE pdf_item[1].reference,
         description |->
             IF dxf_profile # <<>>
             THEN dxf_profile[1].entity_type \o " - " \o dxf_profile[1].layer
             ELSE IF material_qty # <<>> THEN material_qty[1].description
             ELSE pdf_item[1].description,
         quantity |-> FloorQuantity(SourceQuantity(correlation)),
         quantity_source |-> correlation.quantity_source,
         specs_source |->
             IF pdf_item # <<>> /\ dxf_profile # <<>> THEN "both"
             ELSE IF dxf_profile # <<>> THEN "dxf" ELSE "pdf",
         profile_id |-> NoneStr,
         perimeter_mm |-> Num(0),
         area_mm2 |-> Num(0),
         length_mm |-> Num(0),
         weight_kg |-> Num(0),
         complexity_score |-> Num(1),
         holes_count |-> 0,
         entity_type |-> "",
         material |-> specs.material,
         finish |-> IF StrTruthy(specs.finish) THEN specs.finish
                    ELSE TreatmentToFinish(treatment),
         thickness_mm |-> specs.thickness_mm,
         raw_material_cost |-> Num(0),
         transformation_cost |-> Num(0),
         surface_treatment_cost |-> Num(0),
         labor_cost |-> Num(0),
         accessories_cost |-> Num(0),
         unit_cost |-> Num(0),
         total_cost |-> Num(0),
         correlation_confidence |-> correlation.correlation_confidence,
         correlation_method |-> correlation.correlation_method,
         notes |-> ""]

\* "Apply geometry from DXF if available" and "Use length from PDF if DXF
\* doesn't have it" of calculate_budget
ApplyGeometry(line, correlation) ==
    LET dxf_profile == correlation.dxf_profile
        material_qty == correlation.material_quantity
        pdf_item == correlation.pdf_item
        geo ==
            IF dxf_profile # <<>>
            THEN LET p == dxf_profile[1]
                 IN  [line EXCEPT
                        !.profile_id = p.profile_id,
                        !.perimeter_mm = p.perimeter_mm,
                        !.area_mm2 = p.area_mm2,
                        !.length_mm = IF p.length_mm.n # 0 THEN p.length_mm
                                      ELSE RMax(p.bounding_box.width, p.bounding_box.height),
                        !.weight_kg = p.weight_kg,
                        !.complexity_score = p.complexity_score,
                        !.entity_type = p.entity_type,
                        !.holes_count = Len(SelectSeq(p.features, LAMBDA f : f = "hole"))]
            ELSE IF material_qty # <<>>
            THEN [line EXCEPT
                    !.perimeter_mm = material_qty[1].unit_length_mm,
                    !.area_mm2 = material_qty[1].unit_area_mm2,
                    !.length_mm = material_qty[1].unit_length_mm]
            ELSE line
    IN  IF geo.length_mm.n = 0 /\ pdf_item # <<>>
        THEN [geo EXCEPT !.length_mm = IF NumTruthy(pdf_item[1].length_mm)
                                       THEN pdf_item[1].length_mm ELSE Num(0)]
        ELSE geo

\* profile_patterns of _try_calculate_from_cost_db
profile_patterns == <<
    Lit("IPE") \o <<Star(Spaces), Plus(Digits)>>,
    Lit("HEB") \o <<Star(Spaces), Plus(Digits)>>,
    Lit("HEA") \o <<Star(Spaces), Plus(Digits)>>,
    Lit("UPN") \o <<Star(Spaces), Plus(Digits)>>,
    Lit("RHS") \o <<Star(Spaces), Plus(Digits), One({"x", "X"}), Plus(Digits),
                    One({"x", "X"}), Plus(Digits)>>,
    Lit("SHS") \o <<Star(Spaces), Plus(Digits), One({"x", "X"}), Plus(Digits),
                    One({"x", "X"}), Plus(Digits)>>,
    Lit("TUBO") \o <<Plus(Spaces)>> \o Lit("RED")
        \o <<Plus({"."} \cup Spaces), Plus(Digits \cup {"."}), One({"*", "x", "X"}),
             Plus(Digits \cup {"."})>>,
    Lit("MADRE") \o <<Plus(Spaces), One({"C", "Z"}), Plus(Spaces), Plus(Digits)>>,
    Lit("OMEGA") \o <<Star(Spaces), Plus(Digits)>>,
    Lit("CHAPA") \o <<Plus(Spaces)>> \o Lit("PRETA") \o <<Plus(Spaces), Plus(Digits)>>
        \o Lit("MM") >>

\* the match of the first of the patterns k.. of profile_patterns found in
\* term_upper, NoneStr when none is
RECURSIVE FirstPattern(_, _)
FirstPattern(term_upper, k) ==
    IF k > Len(profile_patterns) THEN NoneStr
    ELSE LET m == ReSearch(profile_patterns[k], term_upper)
         IN  IF m # NoneStr THEN m ELSE FirstPattern(term_upper, k + 1)

\* profile_name of _try_calculate_from_cost_db: the designation found in the
\* first of description, reference, profile id that holds one
RECURSIVE ProfileName(_)
ProfileName(search_terms) ==
    IF search_terms = <<>> THEN NoneStr
    ELSE LET m == IF Head(search_terms) = "" THEN NoneStr
                  ELSE FirstPattern(Upper(Head(search_terms)), 1)
         IN  IF m # NoneStr THEN m ELSE ProfileName(Tail(search_terms))

\* the catalog entry _try_calculate_from_cost_db prices the line from, <<>>
\* when it returns False
CatalogProfile(line) ==
    LET profile_name == ProfileName(<<line.description, line.reference,
                                      IF StrTruthy(line.profile_id) THEN line.profile_id
                                      ELSE "">>)
    IN  IF profile_name = NoneStr THEN <<>> ELSE FindProfile(profile_name)

\* the catalog pricing with the lifting cost left out of the labor cost
CalculateFromCostDbWithoutLifting(line, profile) ==
    LET length_m == IF RLt(Num(0), line.length_mm) THEN RDiv(line.length_mm, Num(1000))
                    ELSE Num(1)
        cost_data == CalculateCost(profile, length_m)
        qty == Num(IMax(1, line.quantity))
    IN  [line EXCEPT
            !.weight_kg = cost_data.weight_kg,
            !.raw_material_cost = RMul(cost_data.cost_material, qty),
            !.transformation_cost = RMul(cost_data.cost_fabrication, qty),
            !.surface_treatment_cost = RMul(cost_data.cost_painting, qty),
            !.labor_cost = RMul(cost_data.cost_assembly, qty),
            !.accessories_cost =
                RMul(RAdd(cost_data.cost_consumables, cost_data.cost_transport), qty),
            !.unit_cost = cost_data.total_cost,
            !.total_cost = RMul(cost_data.total_cost, qty),
            !.notes = "Custos FLYSTEEL: " \o profile.designation]

\* BudgetCalculator._try_calculate_from_cost_db, the line after a True return
CalculateFromCostDb(line, profile) ==
    LET length_m == IF RLt(Num(0), line.length_mm) THEN RDiv(line.length_mm, Num(1000))
                    ELSE Num(1)
        cost_data == CalculateCost(profile, length_m)
        qty == Num(IMax(1, line.quantity))
    IN  [line EXCEPT
            !.weight_kg = cost_data.weight_kg,
            !.raw_material_cost = RMul(cost_data.cost_material, qty),
            !.transformation_cost = RMul(cost_data.cost_fabrication, qty),
            !.surface_treatment_cost = RMul(cost_data.cost_painting, qty),
            !.labor_cost = RMul(RAdd(cost_data.cost_assembly, cost_data.cost_lifting), qty),
            !.accessories_cost =
                RMul(RAdd(cost_data.cost_consumables, cost_data.cost_transport), qty),
            !.unit_cost = cost_data.total_cost,
            !.total_cost = RMul(cost_data.total_cost, qty),
            !.notes = "Custos FLYSTEEL: " \o profile.designation]

\* treatment_rates.get(surface_treatment, p.powder_coating_standard_eur_m2)
TreatmentRate(p, treatment) ==
    CASE treatment = "anodizing_natural" -> p.anodizing_natural_eur_m2
      [] treatment = "anodizing_colored" -> p.anodizing_colored_eur_m2
      [] treatment = "powder_coating_standard" -> p.powder_coating_standard_eur_m2
      [] treatment = "powder_coating_qualicoat" -> p.powder_coating_qualicoat_eur_m2
      [] treatment = "powder_coating_seaside" -> p.powder_coating_seaside_eur_m2
      [] treatment = "none" -> Num(0)
      [] OTHER -> p.powder_coating_standard_eur_m2

\* line.thickness_mm or 1.0
ThicknessOrOne(line) == IF NumTruthy(line.thickness_mm) THEN line.thickness_mm ELSE Num(1)

\* line.thickness_mm or 2.0
Thickness(line) == IF NumTruthy(line.thickness_mm) THEN line.thickness_mm ELSE Num(2)

\* "Calculate weight if not provided" of _calculate_line_costs
EstimateWeight(line) ==
    LET thickness == Thickness(line)
        density == Num(ALUMINUM_DENSITY_KG_M3)
        billion == Num(1000000000)
    IN  IF RLt(Num(0), line.weight_kg) THEN line
        ELSE IF RLt(Num(0), line.area_mm2)
        THEN [line EXCEPT !.weight_kg =
                 RMul(RDiv(RMul(RMul(line.perimeter_mm, thickness),
                                RMax(line.length_mm, Num(1000))), billion), density)]
        ELSE IF RLt(Num(0), line.perimeter_mm)
        THEN [line EXCEPT !.weight_kg =
                 RMul(RDiv(RMul(RMul(line.perimeter_mm, thickness), thickness), billion),
                      density)]
        ELSE IF RLt(Num(0), line.length_mm)
        THEN [line EXCEPT
                 !.weight_kg = RMul(RDiv(line.length_mm, Num(1000)), Rat(5, 10)),
                 !.perimeter_mm = RMul(line.length_mm, Rat(1, 10))]
        ELSE [line EXCEPT
                 !.weight_kg = Rat(5, 10),
                 !.length_mm = Num(1000),
                 !.perimeter_mm = Num(100)]

\* the minutes of one piece of the line, not multiplied by the quantity
TotalLaborMinsOfOnePiece(line, p) ==
    RSum(<<p.cutting_time_mins,
           RMul(Num(line.holes_count), p.machining_time_per_hole_mins),
           RMul(RSub(line.complexity_score, Num(1)), Num(5)),
           p.assembly_time_per_component_mins>>)

\* total_labor_mins of _calculate_line_costs
TotalLaborMins(line, p) ==
    LET machining_time == RMul(Num(line.holes_count), p.machining_time_per_hole_mins)
        complexity_time == RMul(RSub(line.complexity_score, Num(1)), Num(5))
    IN  RMul(RSum(<<p.cutting_time_mins, machining_time, complexity_time,
                    p.assembly_time_per_component_mins>>), Num(line.quantity))

\* the formula path of _calculate_line_costs
FormulaCosts(line0, treatment, p) ==
    LET effective_lme == RMul(p.lme_price_usd_kg,
                              RAdd(Num(1), RDiv(p.lme_hedging_buffer_pct, Num(100))))
        material_price_kg == RDiv(RAdd(effective_lme, p.billet_premium_usd_kg), p.eur_to_usd)
        line == EstimateWeight(line0)
        quantity == Num(line.quantity)
        raw_material_cost == RMul(RMul(line.weight_kg, material_price_kg), quantity)
        extrusion_rate == RMul(Rat(150, 100), line.complexity_score)
        transformation_cost == RMul(RMul(line.weight_kg, extrusion_rate), quantity)
        surface_area_m2 == RDiv(RMul(line.perimeter_mm, RMax(line.length_mm, Num(1000))),
                                Num(1000000))
        surface_treatment_cost ==
            RMul(RMul(surface_area_m2, TreatmentRate(p, treatment)), quantity)
        total_labor_mins == TotalLaborMins(line, p)
        labor_cost == RMul(RDiv(total_labor_mins, Num(60)), p.labor_rate_eur_hr)
        accessories_cost == RMul(raw_material_cost, Rat(8, 100))
        unit_cost == RDiv(RSum(<<raw_material_cost, transformation_cost,
                                 surface_treatment_cost, labor_cost, accessories_cost>>),
                          Num(IMax(line.quantity, 1)))
    IN  [line EXCEPT
            !.raw_material_cost = raw_material_cost,
            !.transformation_cost = transformation_cost,
            !.surface_treatment_cost = surface_treatment_cost,
            !.labor_cost = labor_cost,
            !.accessories_cost = accessories_cost,
            !.unit_cost = unit_cost,
            !.total_cost = RMul(unit_cost, quantity)]

\* _calculate_line_costs without the catalog lookup
CalculateLineCostsByFormula(line, treatment, p) == FormulaCosts(line, treatment, p)

\* BudgetCalculator._calculate_line_costs
CalculateLineCosts(line, treatment, p) ==
    LET profile == CatalogProfile(line)
    IN  IF profile # <<>> THEN CalculateFromCostDb(line, profile[1])
        ELSE FormulaCosts(line, treatment, p)

\* one iteration of the loop of calculate_budget: <<>> when the correlation is
\* skipped by `continue`
PricedLine(correlation, id, treatment, p) ==
    IF /\ correlation.dxf_profile = <<>>
       /\ correlation.material_quantity = <<>>
       /\ correlation.pdf_item = <<>>
    THEN <<>>
    ELSE <<CalculateLineCosts(ApplyGeometry(NewLine(correlation, id, treatment),
                                            correlation),
                              treatment, p)>>

---------------------------------------------------------------------------
(* Aggregation (BudgetCalculator._calculate_summary) *)

Field(items, f(_)) == [j \in 1..Len(items) |-> f(items[j])]

\* the direct costs without the waste allowance
DirectCostsWithoutWaste(raw, transformation, surface, labor, accessories, waste) ==
    RSum(<<raw, transformation, surface, labor, accessories>>)

\* direct_costs of _calculate_summary
DirectCosts(raw, transformation, surface, labor, accessories, waste) ==
    RSum(<<raw, transformation, surface, labor, accessories, waste>>)

\* the last statement of _calculate_summary raises ZeroDivisionError
SummaryRaises(p) == p.labor_rate_eur_hr.n = 0

\* the hours at the default rate of PricingParameters
ProductionHoursAtDefaultRate(labor_total, p) == RDiv(labor_total, Num(35))

\* estimated_production_hours of _calculate_summary
ProductionHours(labor_total, p) == RDiv(labor_total, p.labor_rate_eur_hr)

\* BudgetCalculator._calculate_summary: self.summary (created_at, the clock
\* reading, and project_name are left out); estimated_production_hours keeps
\* its default when the division that computes it raises
CalculateSummary(items, hasDxf, hasPdf, p) ==
    LET raw_material_total == RSum(Field(items, LAMBDA i : i.raw_material_cost))
        transformation_total == RSum(Field(items, LAMBDA i : i.transformation_cost))
        surface_treatment_total == RSum(Field(items, LAMBDA i : i.surface_treatment_cost))
        labor_total == RSum(Field(items, LAMBDA i : i.labor_cost))
        accessories_total == RSum(Field(items, LAMBDA i : i.accessories_cost))
        average_complexity ==
            IF items # <<>>
            THEN RDiv(RSum(Field(items, LAMBDA i : i.complexity_score)), Num(Len(items)))
            ELSE Num(0)
        waste_pct == RAdd(p.base_waste_factor_pct,
                          RMul(RSub(average_complexity, Num(1)),
                               p.complexity_waste_factor_pct))
        waste_percentage_applied == RMin(waste_pct, Num(20))
        waste_cost == RMul(raw_material_total, RDiv(waste_percentage_applied, Num(100)))
        direct_costs == DirectCosts(raw_material_total, transformation_total,
                                    surface_treatment_total, labor_total,
                                    accessories_total, waste_cost)
        overhead_cost == RMul(direct_costs, RDiv(p.overhead_factor_pct, Num(100)))
        subtotal == RAdd(direct_costs, overhead_cost)
        profit_margin == RMul(subtotal, RDiv(p.profit_margin_pct, Num(100)))
    IN  [has_dxf |-> hasDxf,
         has_pdf |-> hasPdf,
         dxf_files_count |-> IF hasDxf THEN 1 ELSE 0,
         pdf_files_count |-> IF hasPdf THEN 1 ELSE 0,
         total_profiles |-> Len(items),
         total_quantity |-> ISum(Field(items, LAMBDA i : i.quantity)),
         total_weight_kg |->
             RSum(Field(items, LAMBDA i : RMul(i.weight_kg, Num(i.quantity)))),
         total_length_mm |->
             RSum(Field(items, LAMBDA i : RMul(i.length_mm, Num(i.quantity)))),
         raw_material_total |-> raw_material_total,
         transformation_total |-> transformation_total,
         surface_treatment_total |-> surface_treatment_total,
         labor_total |-> labor_total,
         accessories_total |-> accessories_total,
         waste_cost |-> waste_cost,
         overhead_cost |-> overhead_cost,
         subtotal |-> subtotal,
         profit_margin |-> profit_margin,
         total_quote |-> RAdd(subtotal, profit_margin),
         waste_percentage_applied |-> waste_percentage_applied,
         average_complexity |-> average_complexity,
         estimated_production_hours |->
             IF SummaryRaises(p) THEN Num(0) ELSE ProductionHours(labor_total, p)]

\* BudgetLineItem.to_dict: the identity and provenance entries of the dict
\* (its geometry and cost entries, rounded for display, are left out)
LineToDict(line) ==
    [line_id |-> line.line_id,
     reference |-> line.reference,
     description |-> line.description,
     quantity |-> line.quantity,
     quantity_source |-> line.quantity_source,
     specs_source |-> line.specs_source,
     profile_id |-> line.profile_id,
     specifications |-> [material |-> line.material, finish |-> line.finish,
                         thickness_mm |-> line.thickness_mm],
     correlation_confidence |-> PyRound(line.correlation_confidence, 2),
     correlation_method |-> line.correlation_method,
     notes |-> line.notes]

\* the dict calculate_budget returns ('summary' keeps its sources and its
\* counts; the rounded amounts and 'parameters' are left out)
BudgetResult(items, s, log, hasDxf, hasPdf) ==
    [success |-> TRUE,
     line_items |-> [j \in 1..Len(items) |-> LineToDict(items[j])],
     summary |-> [sources |-> [has_dxf |-> s.has_dxf, has_pdf |-> s.has_pdf,
                               dxf_files_count |-> s.dxf_files_count,
                               pdf_files_count |-> s.pdf_files_count],
                  quantities |-> [total_profiles |-> s.total_profiles,
                                  total_quantity |-> s.total_quantity]],
     correlation_log |-> log,
     data_sources |-> [dxf_used |-> hasDxf, pdf_used |-> hasPdf,
                       quantity_source |-> IF hasDxf THEN "dxf" ELSE "pdf"]]

---------------------------------------------------------------------------
(* Inputs *)

\* the most records (profiles, material quantities, BOM rows, constraints and
\* dimension strings together) one calculation is given
MaxRecords == 2

\* PricingParameters() with its defaults
DefaultParameters ==
    [lme_price_usd_kg |-> Rat(235, 100),
     lme_hedging_buffer_pct |-> Num(5),
     billet_premium_usd_kg |-> Rat(45, 100),
     alloy_6063_premium_pct |-> Num(0),
     alloy_6060_premium_pct |-> Num(2),
     alloy_6082_premium_pct |-> Num(8),
     anodizing_natural_eur_m2 |-> Num(12),
     anodizing_colored_eur_m2 |-> Num(18),
     powder_coating_standard_eur_m2 |-> Num(15),
     powder_coating_qualicoat_eur_m2 |-> Num(22),
     powder_coating_seaside_eur_m2 |-> Num(35),
     labor_rate_eur_hr |-> Num(35),
     cutting_time_mins |-> Num(2),
     machining_time_per_hole_mins |-> Num(5),
     assembly_time_per_component_mins |-> Num(8),
     base_waste_factor_pct |-> Num(8),
     complexity_waste_factor_pct |-> Num(4),
     overhead_factor_pct |-> Num(15),
     profit_margin_pct |-> Num(20),
     eur_to_usd |-> Rat(108, 100)]

\* the parameters a calculator is constructed with: the defaults with fields of
\* PricingParametersUpdate overridden (main.py update_pricing_parameters sets
\* any float it is given)
ParameterChoices ==
    {[DefaultParameters EXCEPT
        !.lme_price_usd_kg = Rat(3, 5), !.labor_rate_eur_hr = Num(36)],
     [DefaultParameters EXCEPT
        !.lme_price_usd_kg = Rat(39, 5), !.labor_rate_eur_hr = Num(48),
        !.base_waste_factor_pct = Num(18), !.overhead_factor_pct = Num(10),
        !.profit_margin_pct = Num(25)],
     [DefaultParameters EXCEPT
        !.lme_price_usd_kg = Rat(-33, 5), !.labor_rate_eur_hr = Num(36),
        !.base_waste_factor_pct = Num(-5)],
     [DefaultParameters EXCEPT
        !.lme_price_usd_kg = Rat(3, 5), !.labor_rate_eur_hr = Num(0)]}

TreatmentChoices == {"powder_coating_standard", "none", "anodizing_xyz"}

Profile(id, layer, etype, qty, perim, area, length, w, h, weight, score, features, hint) ==
    [profile_id |-> id, layer |-> layer, entity_type |-> etype, quantity |-> qty,
     perimeter_mm |-> perim, area_mm2 |-> area, length_mm |-> length,
     bounding_box |-> [width |-> w, height |-> h], weight_kg |-> weight,
     complexity_score |-> score, features |-> features, material_hint |-> hint]

\* entries of dxf_data['profiles']
ProfileRows ==
    <<Profile("C_1", "P1", "CIRCLE", Num(2), Num(500), Num(1200), Num(1000),
              Num(0), Num(0), Num(0), Num(1), <<"hole", "hole">>, NoneStr),
      Profile("L_2", "Ipe 120", "LINE", Num(3), Num(0), Num(0), Num(2000),
              Num(120), Num(64), Num(0), Rat(3, 2), <<"slot">>, "aco"),
      Profile("REF-A_3", "0", "POLY", Num(-2), Num(12500), Num(0), Num(0),
              Num(200), Num(100), Num(0), Num(1), <<>>, "aluminio"),
      Profile("G_4", "", "GROUP", Rat(5, 2), Num(0), Num(0), Num(0),
              Num(0), Num(0), Rat(27, 10), Num(3), <<"hole", "notch">>, NoneStr)>>

ProfileChoices == {ProfileRows[j] : j \in 1..Len(ProfileRows)}

MaterialQuantity(source, reference, description, quantity, unit_length, unit_area) ==
    [source |-> source, profile_reference |-> reference, description |-> description,
     quantity |-> quantity, unit_length_mm |-> unit_length, unit_area_mm2 |-> unit_area]

\* entries of dxf_data['material_quantities']
MaterialRows ==
    <<MaterialQuantity("block_count", "REF-A", "Bloco: REF-A", Num(4), Num(1000), Num(800)),
      MaterialQuantity("block_count", "HEB 100", "Bloco: HEB 100", Num(0), Num(1000),
                       Num(100))>>

MaterialChoices == {MaterialRows[j] : j \in 1..Len(MaterialRows)}

BomItem(reference, description, quantity, length, material, finish, thickness) ==
    [reference |-> reference, description |-> description, quantity |-> quantity,
     length_mm |-> length, material |-> material, finish |-> finish,
     thickness_mm |-> thickness, notes |-> ""]

\* entries of pdf_data['bom_items']
BomRows ==
    <<BomItem("REF-A", "Perfil aluminio", Num(2), Num(3000), "6063", "Anodizado", Num(20)),
      BomItem("p1", "Tubo", Num(1), NoneNum, NoneStr, NoneStr, NoneNum),
      BomItem("", "Viga IPE 120", Num(5), NoneNum, "S275", NoneStr, NoneNum),
      BomItem("X-9", "Chapa", Rat(1, 2), NoneNum, NoneStr, NoneStr, Num(0))>>

BomChoices == {BomRows[j] : j \in 1..Len(BomRows)}

Constraint(type, value, context, importance) ==
    [constraint_type |-> type, value |-> value, context |-> context,
     importance |-> importance]

\* entries of pdf_data['constraints']
ConstraintRows ==
    <<Constraint("material_grade", "EN AW-6060", "liga EN AW-6060 T6", "high"),
      Constraint("surface_treatment", "RAL 7016", "lacado RAL 7016", "medium")>>

ConstraintChoices == {ConstraintRows[j] : j \in 1..Len(ConstraintRows)}

DimensionChoices == {[raw |-> "2500x1200"], [raw |-> "40x30,5"]}

\* the value of the key 'success' of an input, "absent" when it has none
DxfSuccessFlags == {"true", "absent"}

PdfSuccessFlags == {"true", "false"}

\* how many records of each of the five kinds an input holds
Shapes ==
    {s \in [1..5 -> 0..MaxRecords] : s[1] + s[2] + s[3] + s[4] + s[5] <= MaxRecords}

\* the <<dxf_data, pdf_data>> pairs of at most MaxRecords records
BoundedInputs ==
    UNION {
        {<<[success |-> f1, profiles |-> ps, material_quantities |-> ms],
           [success |-> f2, bom_items |-> bs, constraints |-> cs,
            dimension_specs |-> ds]>> :
            f1 \in DxfSuccessFlags, f2 \in PdfSuccessFlags,
            ps \in [1..s[1] -> ProfileChoices],
            ms \in [1..s[2] -> MaterialChoices],
            bs \in [1..s[3] -> BomChoices],
            cs \in [1..s[4] -> ConstraintChoices],
            ds \in [1..s[5] -> DimensionChoices]} :
        s \in Shapes}

\* a BOM row whose quantity is null
NullQuantityRow == BomItem("N-0", "Cantoneira", NoneNum, Num(500), NoneStr, NoneStr, NoneNum)

\* a profile that every matching strategy links to a row of
\* <<BomRows[4], BomRows[2]>>: its layer is the reference of the second row,
\* its id holds the reference of the first and its hint is in the description
\* of the first
ProfileOfManyMatches ==
    [ProfileRows[1] EXCEPT !.profile_id = "X-9_7", !.material_hint = "chapa"]

\* a profile only its material hint links to a row: to BomRows[3]
ProfileOfHintMatch == [ProfileRows[2] EXCEPT !.material_hint = "Viga"]

\* an aggregate compile_material_quantities derives from a layer, not from
\* block inserts
LayerAggregate ==
    MaterialQuantity("layer_analysis", "REF-A", "Layer: REF-A", Num(4), Num(1000), Num(800))

\* a closed profile shorter than a metre, one piece, with two holes
ShortProfile ==
    [ProfileRows[1] EXCEPT !.profile_id = "S_5", !.quantity = Num(1),
                           !.length_mm = Num(400)]

\* a material grade of low importance, listed before ConstraintRows[1]
LowGradeConstraint == Constraint("material_grade", "6063-T5", "perfis em liga 6063-T5", "low")

\* a certification whose context is longer than 100 characters
LongContextConstraint ==
    Constraint("certification", "CE",
               "todos os perfis e acessorios devem ter marcacao CE conforme EN 1090-1 e declaracao de desempenho do fabricante, classe de execucao EXC2",
               "high")

\* a profile on a layer named after a section larger than any of the catalog
\* whose text begins with a catalog designation, and one named after a
\* section size the catalog does not list
OversizeProfile ==
    [ProfileRows[2] EXCEPT !.profile_id = "E_6", !.layer = "HEB 1000",
                           !.quantity = Num(1), !.length_mm = Num(1000)]

AbsentSizeProfile ==
    [ProfileRows[2] EXCEPT !.profile_id = "E_7", !.layer = "IPE 100",
                           !.quantity = Num(1), !.length_mm = Num(1000)]

\* larger projects: a drawing with a profile and a block whose references both
\* appear in the bill of materials, a bill of three rows without drawing, a
\* bill whose second row has no quantity, a drawing whose profile several
\* strategies can match, one whose profile only its hint matches, a failed
\* drawing analysis that still lists a profile and a block, a drawing with a
\* layer aggregate before its block and more BOM rows than geometry, a
\* drawing of one short profile, a drawing whose bill has a row without
\* material and finish and four constraints, and a drawing of two sections
\* the catalog does not list
LargerInputs ==
    {<<[success |-> "true", profiles |-> <<ProfileRows[1]>>,
        material_quantities |-> <<MaterialRows[1]>>],
       [success |-> "true", bom_items |-> <<BomRows[2], BomRows[1]>>,
        constraints |-> <<ConstraintRows[1]>>, dimension_specs |-> <<>>]>>,
     <<[success |-> "false", profiles |-> <<>>, material_quantities |-> <<>>],
       [success |-> "true", bom_items |-> <<BomRows[1], BomRows[2], BomRows[3]>>,
        constraints |-> <<>>, dimension_specs |-> <<>>]>>,
     <<[success |-> "false", profiles |-> <<>>, material_quantities |-> <<>>],
       [success |-> "true", bom_items |-> <<BomRows[1], NullQuantityRow>>,
        constraints |-> <<>>, dimension_specs |-> <<>>]>>,
     <<[success |-> "true", profiles |-> <<ProfileOfManyMatches>>,
        material_quantities |-> <<>>],
       [success |-> "true", bom_items |-> <<BomRows[4], BomRows[2]>>,
        constraints |-> <<>>, dimension_specs |-> <<>>]>>,
     <<[success |-> "true", profiles |-> <<ProfileOfHintMatch>>,
        material_quantities |-> <<>>],
       [success |-> "true", bom_items |-> <<BomRows[1], BomRows[3]>>,
        constraints |-> <<>>, dimension_specs |-> <<>>]>>,
     <<[success |-> "false", profiles |-> <<ProfileRows[1]>>,
        material_quantities |-> <<MaterialRows[1]>>],
       [success |-> "true", bom_items |-> <<BomRows[1], BomRows[2]>>,
        constraints |-> <<>>, dimension_specs |-> <<>>]>>,
     <<[success |-> "true", profiles |-> <<ProfileRows[1]>>,
        material_quantities |-> <<LayerAggregate, MaterialRows[1]>>],
       [success |-> "true", bom_items |-> <<BomRows[2], BomRows[3], BomRows[1]>>,
        constraints |-> <<>>, dimension_specs |-> <<>>]>>,
     <<[success |-> "true", profiles |-> <<ShortProfile>>,
        material_quantities |-> <<>>],
       [success |-> "false", bom_items |-> <<>>,
        constraints |-> <<>>, dimension_specs |-> <<>>]>>,
     <<[success |-> "true", profiles |-> <<ProfileRows[1]>>,
        material_quantities |-> <<MaterialRows[1]>>],
       [success |-> "true", bom_items |-> <<BomRows[2]>>,
        constraints |-> <<LowGradeConstraint, ConstraintRows[1], LongContextConstraint,
                          ConstraintRows[2]>>,
        dimension_specs |-> <<>>]>>,
     <<[success |-> "true", profiles |-> <<OversizeProfile, AbsentSizeProfile>>,
        material_quantities |-> <<>>],
       [success |-> "false", bom_items |-> <<>>,
        constraints |-> <<>>, dimension_specs |-> <<>>]>>}

\* the <<dxf_data, pdf_data>> pairs calculate_budget is called with
Inputs == BoundedInputs \cup LargerInputs

---------------------------------------------------------------------------
(* The calculator *)

NoData == [success |-> "absent"]

\* the fields BudgetCalculator.__init__ sets besides params, and no call begun
CalculatorAtRest ==
    /\ line_items = <<>>
    /\ summary = <<>>
    /\ correlation_log = <<>>
    /\ dxf_data = NoData
    /\ pdf_data = NoData
    /\ surface_treatment = ""
    /\ has_dxf = FALSE
    /\ has_pdf = FALSE
    /\ correlations = <<>>
    /\ line_id = 0
    /\ pos = 0
    /\ result = <<>>
    /\ returned = <<>>
    /\ pc = "idle"

\* BudgetCalculator.__init__
NewCalculator ==
    /\ params \in ParameterChoices
    /\ CalculatorAtRest

Init ==
    /\ NewCalculator
    /\ projects_db = <<>>
    /\ response = <<>>
    /\ cost_db = CostDatabase
    /\ found = <<>>

\* calculate_budget up to its loop, called with one of `inputs` and one of
\* `treatments`: the data flags, correlate_data and the reset of
\* self.line_items. correlate_data appends to self.correlation_log, the list
\* every dict returned before holds under 'correlation_log'
BeginCalculation(inputs, treatments) ==
    /\ \E input \in inputs, treatment \in treatments :
          /\ dxf_data' = input[1]
          /\ pdf_data' = input[2]
          /\ surface_treatment' = treatment
          /\ has_dxf' = (Success(input[1]) /\ Len(input[1].profiles) > 0)
          /\ has_pdf' = Success(input[2])
          /\ correlations' = CorrelateData(input[1], input[2])
          /\ correlation_log' = correlation_log \o CorrelateLog(input[1], input[2])
    /\ result' = [k \in 1..Len(result) |->
                     [result[k] EXCEPT !.correlation_log = correlation_log']]
    /\ line_items' = <<>>
    /\ line_id' = 0
    /\ pos' = 1
    /\ pc' = "pricing"
    /\ UNCHANGED <<params, summary, returned, api_vars, cost_db, found>>

\* the first call of calculate_budget on the calculator
Correlate ==
    /\ pc = "idle"
    /\ BeginCalculation(Inputs, TreatmentChoices)

\* one iteration of the loop of calculate_budget over the correlations
PriceLine ==
    /\ pc = "pricing"
    /\ pos <= Len(correlations)
    /\ ~NewLineRaises(correlations[pos])
    /\ line_id' = line_id + 1
    /\ line_items' = line_items
                     \o PricedLine(correlations[pos], line_id + 1, surface_treatment, params)
    /\ pos' = pos + 1
    /\ UNCHANGED <<params, summary, correlation_log, dxf_data, pdf_data,
                   surface_treatment, has_dxf, has_pdf, correlations, result, returned,
                   pc, api_vars, cost_db, found>>

\* an iteration of the loop whose int(quantity) raises: the exception leaves
\* calculate_budget
RaiseInLine ==
    /\ pc = "pricing"
    /\ pos <= Len(correlations)
    /\ NewLineRaises(correlations[pos])
    /\ line_id' = line_id + 1
    /\ pc' = "raised"
    /\ UNCHANGED <<params, line_items, summary, correlation_log, dxf_data, pdf_data,
                   surface_treatment, has_dxf, has_pdf, correlations, pos, result,
                   returned, api_vars, cost_db, found>>

\* the end of calculate_budget: _calculate_summary and the returned dict
Return ==
    /\ pc = "pricing"
    /\ pos > Len(correlations)
    /\ ~SummaryRaises(params)
    /\ LET s == CalculateSummary(line_items, has_dxf, has_pdf, params)
           r == BudgetResult(line_items, s, correlation_log, has_dxf, has_pdf)
       IN  /\ summary' = <<s>>
           /\ result' = Append(result, r)
           /\ returned' = Append(returned, r)
    /\ pc' = "done"
    /\ UNCHANGED <<params, line_items, correlation_log, dxf_data, pdf_data,
                   surface_treatment, has_dxf, has_pdf, correlations, line_id, pos,
                   api_vars, cost_db, found>>

\* the end of calculate_budget when _calculate_summary raises at its last
\* statement: self.summary is set, nothing is returned
RaiseInSummary ==
    /\ pc = "pricing"
    /\ pos > Len(correlations)
    /\ SummaryRaises(params)
    /\ summary' = <<CalculateSummary(line_items, has_dxf, has_pdf, params)>>
    /\ pc' = "raised"
    /\ UNCHANGED <<params, line_items, correlation_log, dxf_data, pdf_data,
                   surface_treatment, has_dxf, has_pdf, correlations, line_id, pos,
                   result, returned, api_vars, cost_db, found>>

Next == Correlate \/ PriceLine \/ RaiseInLine \/ Return \/ RaiseInSummary

Spec == Init /\ [][Next]_vars

---------------------------------------------------------------------------
(* The calculator called again *)

\* the most calls of calculate_budget on one calculator
MaxCalls == 2

\* the <<dxf_data, pdf_data>> pairs of the calls after the first: a drawing
\* with a profile its bill of materials names, and nothing at all
RepeatInputs ==
    {<<[success |-> "true", profiles |-> <<ProfileRows[1]>>,
        material_quantities |-> <<>>],
       [success |-> "true", bom_items |-> <<BomRows[2]>>,
        constraints |-> <<>>, dimension_specs |-> <<>>]>>,
     <<[success |-> "absent", profiles |-> <<>>, material_quantities |-> <<>>],
       [success |-> "false", bom_items |-> <<>>,
        constraints |-> <<>>, dimension_specs |-> <<>>]>>}

RepeatTreatments == {"none"}

\* the parameters of the calculators that are called again
RepeatParameters == {p \in ParameterChoices : p.lme_price_usd_kg = Rat(3, 5)}

\* another call of calculate_budget on a calculator that has returned
CalculateAgain ==
    /\ pc = "done"
    /\ Len(result) < MaxCalls
    /\ BeginCalculation(RepeatInputs, RepeatTreatments)

RerunInit ==
    /\ Init
    /\ params \in RepeatParameters

RerunNext == Next \/ CalculateAgain

RerunSpec == RerunInit /\ [][RerunNext]_vars

---------------------------------------------------------------------------
(* Properties *)

\* the loop of calculate_budget over the correlations k..: the lines appended
RECURSIVE PriceLines(_, _, _, _)
PriceLines(correlations_, k, treatment, p) ==
    IF k > Len(correlations_) THEN <<>>
    ELSE PricedLine(correlations_[k], k, treatment, p)
         \o PriceLines(correlations_, k + 1, treatment, p)

\* self.line_items after calculate_budget(dxf, pdf, treatment) of a calculator
\* with parameters p
BudgetLines(dxf, pdf, treatment, p) ==
    PriceLines(CorrelateData(dxf, pdf), 1, treatment, p)

Quantities(items) == [j \in 1..Len(items) |-> items[j].quantity]

\* the weight and the costs of a line
Costs(line) ==
    <<line.weight_kg, line.raw_material_cost, line.transformation_cost,
      line.surface_treatment_cost, line.labor_cost, line.accessories_cost,
      line.unit_cost, line.total_cost>>

\* the record calculate_budget reads the quantity of a correlation from
QuantityRecord(correlation) ==
    IF correlation.dxf_profile # <<>> THEN correlation.dxf_profile[1]
    ELSE IF correlation.material_quantity # <<>> THEN correlation.material_quantity[1]
    ELSE correlation.pdf_item[1]

\* the correlation with the quantity of that record replaced
WithQuantity(correlation, quantity) ==
    IF correlation.dxf_profile # <<>>
    THEN [correlation EXCEPT !.dxf_profile[1].quantity = quantity]
    ELSE IF correlation.material_quantity # <<>>
    THEN [correlation EXCEPT !.material_quantity[1].quantity = quantity]
    ELSE [correlation EXCEPT !.pdf_item[1].quantity = quantity]

Returned == pc = "done"

NoProfiles == Len(dxf_data.profiles) = 0

NoBomRows == Len(pdf_data.bom_items) = 0

\* C1 (prevalence): when the geometry input has success = true and at least
\* one profile, every line item of the returned dict, built from a profile or
\* from a block count, matched to a BOM row or not, has quantity_source "dxf".
C1_Prevalence ==
    (Returned /\ dxf_data.success = "true" /\ Len(dxf_data.profiles) >= 1)
        => \A j \in 1..Len(result[1].line_items) :
              result[1].line_items[j].quantity_source = "dxf"

\* a run with a profile matched to a BOM row by its layer (confidence 0.9) and
\* a line built from a block count, with BOM rows and constraints supplied
C1_Witness ==
    /\ Returned
    /\ dxf_data.success = "true"
    /\ Len(pdf_data.bom_items) >= 1
    /\ Len(pdf_data.constraints) >= 1
    /\ \E j \in 1..Len(line_items) :
          /\ line_items[j].specs_source = "both"
          /\ line_items[j].correlation_confidence = Rat(9, 10)
          /\ result[1].line_items[j].quantity_source = "dxf"
    /\ \E j \in 1..Len(line_items) :
          /\ line_items[j].correlation_method = "block_count"
          /\ result[1].line_items[j].quantity_source = "dxf"

\* specification inputs to compare a run with: the one of the run with every
\* BOM quantity changed, one without rows and constraints, one with other rows
\* and another constraint
OtherSpecifications ==
    {[pdf_data EXCEPT !.bom_items =
         [j \in 1..Len(pdf_data.bom_items) |->
             [pdf_data.bom_items[j] EXCEPT !.quantity = RAdd(@, Num(3))]]],
     [success |-> "true", bom_items |-> <<>>, constraints |-> <<>>,
      dimension_specs |-> <<>>],
     [success |-> "true", bom_items |-> <<BomRows[4], BomRows[1]>>,
      constraints |-> <<ConstraintRows[2]>>, dimension_specs |-> <<>>]}

\* C2 (quantity non-interference): when geometry is available, a run with the
\* same geometry input and another specification input (other BOM quantities,
\* other BOM rows, other constraints) gives the same number of lines, the same
\* quantity for every line and the same total_quantity.  Every specification
\* input of the model is compared with the same three, so any two of them
\* agree as well.
C2_QuantityNonInterference ==
    (Returned /\ has_dxf)
        => \A other \in OtherSpecifications :
              LET lines == BudgetLines(dxf_data, other, surface_treatment, params)
              IN  /\ Quantities(lines) = Quantities(result[1].line_items)
                  /\ ISum(Quantities(lines)) = result[1].summary.quantities.total_quantity

\* a run with geometry in which a line is matched to a BOM row whose quantity
\* is not the quantity of the line
C2_Witness ==
    /\ Returned
    /\ has_dxf
    /\ \E j \in 1..Len(line_items) :
          /\ correlations[j].pdf_item # <<>>
          /\ PyInt(correlations[j].pdf_item[1].quantity) >= 1
          /\ PyInt(correlations[j].pdf_item[1].quantity) # line_items[j].quantity

\* C3 (quantity floor): every line has an integer quantity >= 1; a source
\* quantity below 1 (zero, negative, a fraction) gives 1; the weight and the
\* costs of a line whose source quantity was floored or truncated are those of
\* the same line with the resulting quantity as its source quantity; and
\* total_quantity is the sum of the quantities of the lines.
C3_QuantityFloor ==
    /\ \A j \in 1..Len(line_items) :
          LET line == line_items[j]
              correlation == correlations[line.line_id]
              source == QuantityRecord(correlation).quantity
          IN  /\ line.quantity \in Nat
              /\ line.quantity >= 1
              /\ RLt(source, Num(1)) => line.quantity = 1
              /\ source # Num(line.quantity) =>
                    Costs(line) =
                        Costs(PricedLine(WithQuantity(correlation, Num(line.quantity)),
                                         line.line_id, surface_treatment, params)[1])
    /\ Returned =>
          /\ summary[1].total_quantity = ISum(Quantities(line_items))
          /\ result[1].summary.quantities.total_quantity = ISum(Quantities(line_items))

\* a run returning a line of quantity 1 from a negative source quantity, one
\* from a source quantity 0 or one from a source quantity 1/2
C3_Witness ==
    /\ Returned
    /\ \E j \in 1..Len(line_items) :
          /\ RLt(QuantityRecord(correlations[j]).quantity, Num(1))
          /\ line_items[j].quantity = 1
          /\ line_items[j].total_cost # Num(0)
    /\ summary[1].total_quantity >= Len(line_items)

\* C4 (cost additivity and non-negativity): on every priced line, of the
\* catalog path and of the formula path, unit_cost * quantity = total_cost and
\* total_cost >= 0.
C4_AdditivityAndNonNegativity ==
    \A j \in 1..Len(line_items) :
        /\ RMul(line_items[j].unit_cost, Num(line_items[j].quantity))
              = line_items[j].total_cost
        /\ RLe(Num(0), line_items[j].total_cost)

\* the additivity of C4 alone: on every priced line unit_cost * quantity =
\* total_cost, and total_cost is the sum of the five components
C4_Additivity ==
    \A j \in 1..Len(line_items) :
        LET line == line_items[j]
        IN  /\ RMul(line.unit_cost, Num(line.quantity)) = line.total_cost
            /\ line.total_cost =
                  RSum(<<line.raw_material_cost, line.transformation_cost,
                         line.surface_treatment_cost, line.labor_cost,
                         line.accessories_cost>>)

\* the non-negativity of C4 for parameters that are not negative
C4_NonNegativeForNonNegativeParameters ==
    RLe(Num(0), params.lme_price_usd_kg)
        => \A j \in 1..Len(line_items) : RLe(Num(0), line_items[j].total_cost)

\* the five component totals of a summary
ComponentTotals(s) ==
    <<s.raw_material_total, s.transformation_total, s.surface_treatment_total,
      s.labor_total, s.accessories_total>>

\* C5 (aggregation identity): in every summary each component total is the
\* sum of the component over the lines, subtotal = the five totals + waste_cost
\* + overhead_cost, overhead_cost = (the five totals + waste_cost) * overhead %,
\* profit_margin = subtotal * margin % and total_quote = subtotal +
\* profit_margin.
C5_AggregationIdentity ==
    Returned =>
        LET s == summary[1]
            five == RSum(ComponentTotals(s))
        IN  /\ s.raw_material_total = RSum(Field(line_items, LAMBDA i : i.raw_material_cost))
            /\ s.transformation_total
                  = RSum(Field(line_items, LAMBDA i : i.transformation_cost))
            /\ s.surface_treatment_total
                  = RSum(Field(line_items, LAMBDA i : i.surface_treatment_cost))
            /\ s.labor_total = RSum(Field(line_items, LAMBDA i : i.labor_cost))
            /\ s.accessories_total = RSum(Field(line_items, LAMBDA i : i.accessories_cost))
            /\ s.subtotal = RAdd(RAdd(five, s.waste_cost), s.overhead_cost)
            /\ s.overhead_cost = RMul(RAdd(five, s.waste_cost),
                                      RDiv(params.overhead_factor_pct, Num(100)))
            /\ s.profit_margin = RMul(s.subtotal, RDiv(params.profit_margin_pct, Num(100)))
            /\ s.total_quote = RAdd(s.subtotal, s.profit_margin)

\* a summary of two lines with a waste allowance, an overhead and a margin
C5_Witness ==
    /\ Returned
    /\ Len(line_items) = 2
    /\ RLt(Num(0), summary[1].waste_cost)
    /\ RLt(Num(0), summary[1].overhead_cost)
    /\ RLt(summary[1].subtotal, summary[1].total_quote)

\* base waste % + (average complexity - 1) * complexity waste %
WasteFormula(s) ==
    RAdd(params.base_waste_factor_pct,
         RMul(RSub(s.average_complexity, Num(1)), params.complexity_waste_factor_pct))

\* C6 (waste clamp): in every summary waste_percentage_applied is the waste
\* formula clamped to 0..20, so 0 <= waste_percentage_applied <= 20, and
\* waste_cost = raw_material_total * waste_percentage_applied / 100.
C6_WasteClamp ==
    Returned =>
        LET s == summary[1]
        IN  /\ RLe(Num(0), s.waste_percentage_applied)
            /\ RLe(s.waste_percentage_applied, Num(20))
            /\ s.waste_percentage_applied = RMax(Num(0), RMin(WasteFormula(s), Num(20)))
            /\ s.waste_cost = RDiv(RMul(s.raw_material_total, s.waste_percentage_applied),
                                   Num(100))

\* what holds of the waste allowance: the formula is clamped from above only
C6_UpperClamp ==
    Returned =>
        LET s == summary[1]
        IN  /\ RLe(s.waste_percentage_applied, Num(20))
            /\ s.waste_percentage_applied = RMin(WasteFormula(s), Num(20))
            /\ s.waste_cost = RDiv(RMul(s.raw_material_total, s.waste_percentage_applied),
                                   Num(100))

\* a summary where the clamp to 20 acts
C6_ClampActs ==
    Returned /\ RLt(Num(20), WasteFormula(summary[1]))
             /\ summary[1].waste_percentage_applied = Num(20)

\* C7 (never empty): correlate_data never returns an empty list, no
\* correlation is dropped between correlation and pricing, and the returned
\* dict has at least one line item, for every input.
C7_NeverEmpty ==
    /\ pc \in {"pricing", "done"} => Len(correlations) >= 1
    /\ Returned =>
          /\ Len(result[1].line_items) >= 1
          /\ Len(result[1].line_items) = Len(correlations)

\* a run given a dimension string only, from which no item is extracted
C7_Witness ==
    /\ Returned
    /\ NoProfiles
    /\ NoBomRows
    /\ Len(pdf_data.constraints) = 0
    /\ Len(pdf_data.dimension_specs) = 1
    /\ Len(result[1].line_items) = 1
    /\ result[1].line_items[1].correlation_method = "placeholder"

\* C8 (fallback completeness): with no profiles, no BOM rows, no constraints
\* and no dimension strings the returned dict has exactly one line, the
\* placeholder: quantity 1, quantity_source "estimated", method "placeholder",
\* confidence 0.1, a description with the counts of constraints and dimensions.
C8_FallbackPlaceholder ==
    (/\ Returned
     /\ NoProfiles
     /\ NoBomRows
     /\ Len(pdf_data.constraints) = 0
     /\ Len(pdf_data.dimension_specs) = 0)
        => /\ Len(result[1].line_items) = 1
           /\ LET line == result[1].line_items[1]
              IN  /\ line.quantity = 1
                  /\ line.quantity_source = "estimated"
                  /\ line.correlation_method = "placeholder"
                  /\ line.correlation_confidence = Rat(1, 10)
                  /\ line.description = "Projeto (analise automatica: 0 specs, 0 dimensoes)"

\* a run given nothing but block counts, returning the placeholder
C8_Witness ==
    /\ Returned
    /\ NoProfiles
    /\ NoBomRows
    /\ Len(dxf_data.material_quantities) >= 1
    /\ Len(pdf_data.constraints) = 0
    /\ Len(pdf_data.dimension_specs) = 0
    /\ result[1].line_items[1].reference = "PROJ-01"

\* the returned lines are the BOM rows in row order, each with quantity_source
\* "pdf", confidence 0.5, method "pdf_only" and its quantity floored to at
\* least 1, and total_quantity is the sum of these quantities
OneLinePerBomRow ==
    LET rows == pdf_data.bom_items
        lines == result[1].line_items
    IN  /\ Len(lines) = Len(rows)
        /\ \A j \in 1..Len(lines) :
              /\ lines[j].reference = rows[j].reference
              /\ lines[j].description = rows[j].description
              /\ lines[j].quantity_source = "pdf"
              /\ lines[j].correlation_confidence = Rat(5, 10)
              /\ lines[j].correlation_method = "pdf_only"
              /\ lines[j].quantity = IMax(1, PyInt(rows[j].quantity))
        /\ result[1].summary.quantities.total_quantity
              = ISum([j \in 1..Len(rows) |-> IMax(1, PyInt(rows[j].quantity))])

WithOtherGeometry(correlation) ==
    IF correlation.dxf_profile = <<>> THEN correlation
    ELSE [correlation EXCEPT !.dxf_profile[1].complexity_score = Num(4),
                             !.dxf_profile[1].features = <<"hole", "hole", "hole">>]

\* C10 (catalog short-circuit): a line whose description, reference or profile
\* id holds a designation found in the catalog has its weight and its five
\* costs computed from the rates of the catalog entry, the length of the line
\* (1 m when the length is 0) and the quantity, and they are the same under
\* any pricing parameters, surface treatment, complexity score and hole count.
C10_CatalogShortCircuit ==
    \A j \in 1..Len(line_items) :
        LET line == line_items[j]
            entry == CatalogProfile(line)
        IN  entry # <<>> =>
              LET e == entry[1]
                  length_m == IF line.length_mm = Num(0) THEN Num(1)
                              ELSE RDiv(line.length_mm, Num(1000))
                  weight == RMul(length_m, e.weight_per_meter)
                  area == RMul(length_m, e.area_per_meter)
                  qty == Num(line.quantity)
              IN  /\ line.weight_kg = weight
                  /\ line.raw_material_cost = RMul(RMul(weight, e.price_material), qty)
                  /\ line.transformation_cost
                        = RMul(RMul(weight, e.price_fabrication), qty)
                  /\ line.surface_treatment_cost = RMul(RMul(area, e.price_painting), qty)
                  /\ line.labor_cost
                        = RMul(RAdd(RMul(weight, e.price_assembly),
                                    RMul(weight, e.price_lifting)), qty)
                  /\ line.accessories_cost
                        = RMul(RAdd(RMul(weight, e.price_consumables),
                                    RMul(weight, e.price_transport)), qty)
                  /\ \A p \in ParameterChoices \cup {DefaultParameters},
                        treatment \in TreatmentChoices :
                        Costs(PricedLine(WithOtherGeometry(correlations[line.line_id]),
                                         line.line_id, treatment, p)[1])
                            = Costs(line)

\* a run returning a catalog line of length 0 (priced for 1 m) and a quantity
\* above 1
C10_Witness ==
    /\ Returned
    /\ \E j \in 1..Len(line_items) :
          /\ CatalogProfile(line_items[j]) # <<>>
          /\ line_items[j].length_mm = Num(0)
          /\ line_items[j].quantity > 1
          /\ RLt(Num(0), line_items[j].labor_cost)

---------------------------------------------------------------------------
(* The application (backend/main.py): projects, uploads, /api/calculate *)

\* calculate_budget as a function: the dict a fresh BudgetCalculator(p) returns
\* (the correlations, then the lines, are each computed once)
CalculateBudget(dxf, pdf, treatment, p) ==
    LET hasDxf == Success(dxf) /\ Len(dxf.profiles) > 0
        hasPdf == Success(pdf)
        Lines == {PriceLines(cs, 1, treatment, p) : cs \in {CorrelateData(dxf, pdf)}}
    IN  CHOOSE r \in {BudgetResult(items, CalculateSummary(items, hasDxf, hasPdf, p),
                                   CorrelateLog(dxf, pdf), hasDxf, hasPdf) :
                         items \in Lines} : TRUE

\* calculate_budget raises instead of returning
CalculateBudgetRaises(dxf, pdf, p) ==
    \/ SummaryRaises(p)
    \/ \E j \in 1..Len(CorrelateData(dxf, pdf)) : NewLineRaises(CorrelateData(dxf, pdf)[j])

\* the ids create_project can give a project (uuid4 prefixes)
ProjectIds == {"a1b2c3d4"}

\* an id no project has
UnknownId == "00000000"

\* the most files uploaded to one project
MaxFiles == 2

\* what DXFParser.parse returns for an uploaded drawing: a profile, only a
\* block, or a failure
DxfAnalyses ==
    {[success |-> "true", profiles |-> <<ProfileRows[1]>>, material_quantities |-> <<>>],
     [success |-> "true", profiles |-> <<>>, material_quantities |-> <<MaterialRows[1]>>],
     [success |-> "false", profiles |-> <<>>, material_quantities |-> <<>>]}

\* what PDFReader.parse returns for an uploaded document: a BOM row, only a
\* constraint, or a failure
PdfAnalyses ==
    {[success |-> "true", bom_items |-> <<BomRows[1]>>, constraints |-> <<>>,
      dimension_specs |-> <<>>],
     [success |-> "true", bom_items |-> <<>>, constraints |-> <<ConstraintRows[1]>>,
      dimension_specs |-> <<>>],
     [success |-> "false", bom_items |-> <<>>, constraints |-> <<>>,
      dimension_specs |-> <<>>]}

\* an uploaded file by its extension, with the analysis its parser returns
Files ==
    {[ext |-> ".dxf", analysis |-> a] : a \in DxfAnalyses}
    \cup {[ext |-> ".pdf", analysis |-> a] : a \in PdfAnalyses}
    \cup {[ext |-> ".txt", analysis |-> NoData]}

\* the PricingParameters the endpoint builds from request.parameters: the
\* defaults when there are none, else the defaults with the given fields set
RequestParameters == {DefaultParameters} \cup ParameterChoices

RequestTreatments == {"powder_coating_standard", "none"}

\* the project create_project stores
NewProject ==
    [dxf_analyses |-> <<>>, pdf_analyses |-> <<>>, merged_dxf_analysis |-> <<>>,
     merged_pdf_analysis |-> <<>>, budget |-> <<>>, status |-> "created"]

RECURSIVE Concat(_)
Concat(lists) == IF lists = <<>> THEN <<>> ELSE Head(lists) \o Concat(Tail(lists))

\* the lists under one key of the successful analyses, concatenated
Merged(analyses, key) ==
    Concat([j \in 1..Len(analyses) |->
               IF Success(analyses[j]) THEN analyses[j][key] ELSE <<>>])

\* merge_project_analyses (the source_file key it adds to the merged records
\* and the lists calculate_budget does not read are left out)
MergeProjectAnalyses(project) ==
    [project EXCEPT
        !.merged_dxf_analysis =
            IF project.dxf_analyses # <<>>
            THEN <<[success |-> "true",
                    profiles |-> Merged(project.dxf_analyses, "profiles"),
                    material_quantities |->
                        Merged(project.dxf_analyses, "material_quantities")]>>
            ELSE @,
        !.merged_pdf_analysis =
            IF project.pdf_analyses # <<>>
            THEN <<[success |-> "true",
                    bom_items |-> Merged(project.pdf_analyses, "bom_items"),
                    constraints |-> Merged(project.pdf_analyses, "constraints"),
                    dimension_specs |->
                        Merged(project.pdf_analyses, "dimension_specs")]>>
            ELSE @]

\* dxf_analysis of the endpoint calculate_budget
DxfAnalysisOf(project) ==
    IF project.merged_dxf_analysis # <<>> THEN project.merged_dxf_analysis[1]
    ELSE IF project.dxf_analyses # <<>> THEN project.dxf_analyses[1]
    ELSE [success |-> "false", profiles |-> <<>>, material_quantities |-> <<>>]

\* pdf_analysis of the endpoint calculate_budget
PdfAnalysisOf(project) ==
    IF project.merged_pdf_analysis # <<>> THEN project.merged_pdf_analysis[1]
    ELSE IF project.pdf_analyses # <<>> THEN project.pdf_analyses[1]
    ELSE [success |-> "false", bom_items |-> <<>>, constraints |-> <<>>,
          dimension_specs |-> <<>>]

\* the budget the endpoint returns and stores: the calculator's dict with
\* data_sources replaced ('recommendations' is left out)
EndpointBudget(project, dxf_analysis, pdf_analysis, treatment, p) ==
    [CalculateBudget(dxf_analysis, pdf_analysis, treatment, p)
        EXCEPT !.data_sources =
            [dxf_files_used |-> Len(project.dxf_analyses),
             pdf_files_used |-> Len(project.pdf_analyses),
             quantity_source |-> IF Success(dxf_analysis) THEN "DXF" ELSE "PDF",
             specifications_source |-> IF Success(pdf_analysis) THEN "PDF" ELSE "DXF"]]

Response(request, id, status, body) ==
    [request |-> request, project_id |-> id, status |-> status, body |-> body]

\* POST /api/projects
CreateProject ==
    /\ \E id \in ProjectIds \ DOMAIN projects_db :
          /\ projects_db' = (id :> NewProject) @@ projects_db
          /\ response' = Response("create_project", id, 200, <<>>)
    /\ UNCHANGED <<calculator_vars, cost_db, found>>

\* POST /api/upload with one file
UploadFiles ==
    /\ \E id \in ProjectIds \cup {UnknownId}, file \in Files :
          IF id \notin DOMAIN projects_db
          THEN /\ response' = Response("upload_files", id, 404, <<>>)
               /\ UNCHANGED projects_db
          ELSE LET project == projects_db[id]
                   stored ==
                       IF file.ext = ".dxf"
                       THEN [project EXCEPT !.dxf_analyses = Append(@, file.analysis)]
                       ELSE IF file.ext = ".pdf"
                       THEN [project EXCEPT !.pdf_analyses = Append(@, file.analysis)]
                       ELSE project
               IN  /\ Len(project.dxf_analyses) + Len(project.pdf_analyses) < MaxFiles
                   /\ projects_db' =
                         [projects_db EXCEPT
                            ![id] = [MergeProjectAnalyses(stored)
                                        EXCEPT !.status = "files_uploaded"]]
                   /\ response' = Response("upload_files", id, 200, <<>>)
    /\ UNCHANGED <<calculator_vars, cost_db, found>>

\* POST /api/calculate
CalculateBudgetEndpoint ==
    /\ \E id \in ProjectIds \cup {UnknownId}, treatment \in RequestTreatments,
          p \in RequestParameters :
          IF id \notin DOMAIN projects_db
          THEN /\ response' = Response("calculate_budget", id, 404, <<>>)
               /\ UNCHANGED projects_db
          ELSE \E dxf_analysis \in {DxfAnalysisOf(projects_db[id])},
                  pdf_analysis \in {PdfAnalysisOf(projects_db[id])} :
                  IF ~Success(dxf_analysis) /\ ~Success(pdf_analysis)
                  THEN /\ response' = Response("calculate_budget", id, 400, <<>>)
                       /\ UNCHANGED projects_db
                  ELSE IF CalculateBudgetRaises(dxf_analysis, pdf_analysis, p)
                  THEN /\ response' = Response("calculate_budget", id, 500, <<>>)
                       /\ UNCHANGED projects_db
                  ELSE \E budget \in {EndpointBudget(projects_db[id], dxf_analysis,
                                                     pdf_analysis, treatment, p)} :
                          /\ projects_db' =
                                [projects_db EXCEPT
                                   ![id] = [@ EXCEPT !.budget = <<budget>>,
                                                     !.status = "calculated"]]
                          /\ response' = Response("calculate_budget", id, 200, <<budget>>)
    /\ UNCHANGED <<calculator_vars, cost_db, found>>

ApiInit ==
    /\ params = DefaultParameters
    /\ CalculatorAtRest
    /\ projects_db = <<>>
    /\ response = <<>>
    /\ cost_db = CostDatabase
    /\ found = <<>>

ApiNext == CreateProject \/ UploadFiles \/ CalculateBudgetEndpoint

ApiSpec == ApiInit /\ [][ApiNext]_vars

---------------------------------------------------------------------------
(* The catalog in use (cost_database.py and its callers) *)

\* what find_profile is asked for: designations and codes as written, in
\* lower case without the space, part of a designation, and a name the
\* catalog does not have
SearchTerms ==
    {"IPE 300", "IPE 240", "0480040011", "0240120025", " chapa  preta 8mm", "ipe300",
     "HEB", "xyz"}

\* the terms whose entry calculate_cost is called on
CostTerms == {"IPE 300", "IPE 240", "0480040011", "0240120025", " chapa  preta 8mm"}

\* what find_cladding is asked for
CladdingTerms == {"painel pir", "cume", "porta", "remates fachada", "zzz"}

Categories == {"all", "facade", "roof", "accessories"}

\* lengths in metres and quantities
Amounts == {Num(0), Num(1), Rat(5, 2), Num(3), Num(6), Num(12), Num(20)}

\* the lists calculate_steel_structure_cost is given
StructureLists ==
    {<<>>,
     <<[profile |-> "IPE 300", length |-> Rat(5, 2)]>>,
     <<[profile |-> "IPE 300", length |-> Num(0)]>>,
     <<[profile |-> "xyz", length |-> Num(1)]>>,
     <<[profile |-> "IPE 300", length |-> Num(1)],
       [profile |-> "0480040011", length |-> Rat(5, 2)]>>,
     <<[profile |-> "IPE 240", length |-> Num(6)],
       [profile |-> "IPE 300", length |-> Num(1)]>>}

\* the lists calculate_cladding_cost is given
CladdingLists ==
    {<<>>,
     <<[item |-> "cume", quantity |-> Num(6)]>>,
     <<[item |-> "cume", quantity |-> Num(0)]>>,
     <<[item |-> "zzz", quantity |-> Num(1)]>>,
     <<[item |-> "cume", quantity |-> Num(1)],
       [item |-> "anticume", quantity |-> Rat(5, 2)]>>}

\* the drawings of the budgets priced while the catalog is in use: one profile
\* each, one of them on a layer named after a catalog profile
CatalogInputs ==
    {<<[success |-> "true", profiles |-> <<profile>>, material_quantities |-> <<>>],
       [success |-> "false", bom_items |-> <<>>, constraints |-> <<>>,
        dimension_specs |-> <<>>]>> : profile \in ProfileChoices}

\* the tables after calculate_cost ran on an entry of steel_profiles: the
\* entry is the object under every key that holds it
AfterCalculateCost(db, profile, length_meters) ==
    [db EXCEPT !.steel_profiles =
        [j \in 1..Len(@) |->
            IF @[j][2] = profile
            THEN <<@[j][1], SteelProfileAfterCalculateCost(profile, length_meters)>>
            ELSE @[j]]]

\* a table of cladding after calculate_cost ran on one of its items
ItemsAfterCalculateCost(items_dict, item, quantity) ==
    [j \in 1..Len(items_dict) |->
        IF items_dict[j][2] = item
        THEN <<items_dict[j][1], CladdingItemAfterCalculateCost(item, quantity)>>
        ELSE items_dict[j]]

\* the tables after calculate_cost ran on an item of cladding
AfterCladdingCalculateCost(db, item, quantity) ==
    [db EXCEPT !.facade_items = ItemsAfterCalculateCost(@, item, quantity),
               !.roof_items = ItemsAfterCalculateCost(@, item, quantity),
               !.accessories = ItemsAfterCalculateCost(@, item, quantity)]

\* the tables after the loop of calculate_steel_structure_cost
RECURSIVE AfterSteelStructureCost(_, _)
AfterSteelStructureCost(db, profiles) ==
    IF profiles = <<>> THEN db
    ELSE CHOOSE after \in
             {AfterSteelStructureCost(next, Tail(profiles)) :
                 next \in {IF profile # <<>> /\ RLt(Num(0), Head(profiles).length)
                           THEN AfterCalculateCost(db, profile[1], Head(profiles).length)
                           ELSE db :
                              profile \in {FindProfileIn(db.steel_profiles,
                                                         Head(profiles).profile)}}} : TRUE

\* the tables after the loop of calculate_cladding_cost
RECURSIVE AfterCladdingCost(_, _)
AfterCladdingCost(db, items) ==
    IF items = <<>> THEN db
    ELSE CHOOSE after \in
             {AfterCladdingCost(next, Tail(items)) :
                 next \in {IF item # <<>> /\ RLt(Num(0), Head(items).quantity)
                           THEN AfterCladdingCalculateCost(db, item[1], Head(items).quantity)
                           ELSE db :
                              item \in {FindCladding(db, Head(items).item, "all")}}} : TRUE

\* the tables after _try_calculate_from_cost_db ran on each line of a budget,
\* the lines k.. of the correlations
RECURSIVE AfterPricing(_, _, _, _)
AfterPricing(db, correlations_, k, treatment) ==
    IF k > Len(correlations_) THEN db
    ELSE CHOOSE after \in
             {AfterPricing(next, correlations_, k + 1, treatment) :
                 next \in {IF profile # <<>>
                           THEN AfterCalculateCost(
                                    db, profile[1],
                                    IF RLt(Num(0), line.length_mm)
                                    THEN RDiv(line.length_mm, Num(1000)) ELSE Num(1))
                           ELSE db :
                              line \in {ApplyGeometry(NewLine(correlations_[k], k, treatment),
                                                      correlations_[k])},
                              profile \in {CatalogProfile(
                                               ApplyGeometry(
                                                   NewLine(correlations_[k], k, treatment),
                                                   correlations_[k]))}}} : TRUE

\* what a call returned: the callable, its arguments, the value
Found(call, args, value) == [call |-> call, args |-> args, value |-> value]

\* cost_db.find_profile(term)
CallFindProfile ==
    /\ \E term \in SearchTerms :
          found' = Found("find_profile", <<term>>, FindProfileIn(cost_db.steel_profiles, term))
    /\ UNCHANGED <<calculator_vars, api_vars, cost_db>>

\* cost_db.find_cladding(term, category)
CallFindCladding ==
    /\ \E term \in CladdingTerms, category \in Categories :
          found' = Found("find_cladding", <<term, category>>,
                         FindCladding(cost_db, term, category))
    /\ UNCHANGED <<calculator_vars, api_vars, cost_db>>

\* cost_db.get_all_profiles()
CallGetAllProfiles ==
    /\ found' = Found("get_all_profiles", <<>>, GetAllProfiles(cost_db))
    /\ UNCHANGED <<calculator_vars, api_vars, cost_db>>

\* cost_db.get_all_cladding()
CallGetAllCladding ==
    /\ found' = Found("get_all_cladding", <<>>, GetAllCladding(cost_db))
    /\ UNCHANGED <<calculator_vars, api_vars, cost_db>>

\* calculate_cost(amount) on the entry find_profile returns for a term
CallCalculateCost ==
    /\ \E term \in CostTerms :
          \E profile \in {FindProfileIn(cost_db.steel_profiles, term)}, amount \in Amounts :
              /\ profile # <<>>
              /\ found' = Found("SteelProfile.calculate_cost", <<term, amount>>,
                                CalculateCost(profile[1], amount))
              /\ cost_db' = AfterCalculateCost(cost_db, profile[1], amount)
    /\ UNCHANGED <<calculator_vars, api_vars>>

\* calculate_cost(amount) on the item find_cladding returns for a term
CallCladdingCalculateCost ==
    /\ \E term \in CladdingTerms :
          \E item \in {FindCladding(cost_db, term, "all")}, amount \in Amounts :
              /\ item # <<>>
              /\ found' = Found("CladdingItem.calculate_cost", <<term, amount>>,
                                CladdingCalculateCost(item[1], amount))
              /\ cost_db' = AfterCladdingCalculateCost(cost_db, item[1], amount)
    /\ UNCHANGED <<calculator_vars, api_vars>>

\* calculate_steel_structure_cost(profiles)
CallCalculateSteelStructureCost ==
    /\ \E profiles \in StructureLists :
          /\ found' = Found("calculate_steel_structure_cost", <<profiles>>,
                            CalculateSteelStructureCost(cost_db, profiles))
          /\ cost_db' = AfterSteelStructureCost(cost_db, profiles)
    /\ UNCHANGED <<calculator_vars, api_vars>>

\* calculate_cladding_cost(items)
CallCalculateCladdingCost ==
    /\ \E items \in CladdingLists :
          /\ found' = Found("calculate_cladding_cost", <<items>>,
                            CalculateCladdingCost(cost_db, items))
          /\ cost_db' = AfterCladdingCost(cost_db, items)
    /\ UNCHANGED <<calculator_vars, api_vars>>

\* BudgetCalculator(params).calculate_budget(dxf_data, pdf_data, 'none'), its
\* lines priced through _try_calculate_from_cost_db
CallCalculateBudget ==
    /\ \E input \in CatalogInputs :
          \E budget \in {CalculateBudget(input[1], input[2], "none", params)},
             priced \in {CorrelateData(input[1], input[2])} :
              /\ found' = Found("calculate_budget", input, budget)
              /\ cost_db' = AfterPricing(cost_db, priced, 1, "none")
    /\ UNCHANGED <<calculator_vars, api_vars>>

CatalogInit == ApiInit

CatalogNext ==
    \/ CallFindProfile
    \/ CallFindCladding
    \/ CallGetAllProfiles
    \/ CallGetAllCladding
    \/ CallCalculateCost
    \/ CallCladdingCalculateCost
    \/ CallCalculateSteelStructureCost
    \/ CallCalculateCladdingCost
    \/ CallCalculateBudget

CatalogSpec == CatalogInit /\ [][CatalogNext]_vars

---------------------------------------------------------------------------
(* Properties of the failure policy, the matching and the formula path *)

Raised == pc = "raised"

\* C11 (failure policy): calculate_budget never raises to its caller: for every
\* input and every parameter value no run ends in an exception, and a returned
\* run has success = true and one line for every correlation, a malformed one
\* included.
C11_NeverRaises ==
    /\ ~Raised
    /\ Returned => /\ result[1].success
                   /\ Len(result[1].line_items) = Len(correlations)

\* the reference index _build_pdf_lookup makes of the BOM rows of the run
ReferenceIndex == BuildPdfLookup(pdf_data.bom_items)

\* strategy (a) applies: the upper-cased layer is a key of the index
LayerIsIndexed(profile) ==
    \E k \in 1..Len(ReferenceIndex) : ReferenceIndex[k][1] = Upper(profile.layer)

\* strategy (b) applies at these entries of the index: the key is in the
\* upper-cased profile id, or the id in the key
IdMatches(profile) ==
    {k \in 1..Len(ReferenceIndex) :
        \/ Contains(Upper(profile.profile_id), ReferenceIndex[k][1])
        \/ Contains(ReferenceIndex[k][1], Upper(profile.profile_id))}

\* strategy (c) applies at these BOM rows: there is a material hint and the
\* description holds it (both lower-cased)
HintMatches(profile) ==
    {k \in 1..Len(pdf_data.bom_items) :
        /\ profile.material_hint \notin {NoneStr, ""}
        /\ Contains(Lower(pdf_data.bom_items[k].description),
                    Lower(profile.material_hint))}

\* the least element of a non-empty set of positions
First(S) == CHOOSE k \in S : \A h \in S : k <= h

\* C13 (matching strategy order): in a run with geometry the correlation of
\* every profile is the outcome of the first strategy that applies: (a) layer
\* in the reference index -> that row, 0.9, "layer_to_reference"; else (b) a
\* reference in the profile id or the id in a reference -> the first such
\* row, 0.8, "profile_id_match"; else (c) the material hint in a description
\* -> the first such row, 0.6, "material_hint"; else no row, 0.0, "none".
C13_MatchingStrategyOrder ==
    (pc # "idle" /\ has_dxf) =>
        \A j \in 1..Len(dxf_data.profiles) :
            LET profile == dxf_data.profiles[j]
                c == correlations[j]
            IN  /\ c.dxf_profile = <<profile>>
                /\ IF LayerIsIndexed(profile)
                   THEN /\ c.correlation_confidence = Rat(9, 10)
                        /\ c.correlation_method = "layer_to_reference"
                        /\ \E k \in 1..Len(ReferenceIndex) :
                              /\ ReferenceIndex[k][1] = Upper(profile.layer)
                              /\ c.pdf_item = <<ReferenceIndex[k][2]>>
                   ELSE IF IdMatches(profile) # {}
                   THEN /\ c.correlation_confidence = Rat(8, 10)
                        /\ c.correlation_method = "profile_id_match"
                        /\ c.pdf_item = <<ReferenceIndex[First(IdMatches(profile))][2]>>
                   ELSE IF HintMatches(profile) # {}
                   THEN /\ c.correlation_confidence = Rat(6, 10)
                        /\ c.correlation_method = "material_hint"
                        /\ c.pdf_item = <<pdf_data.bom_items[First(HintMatches(profile))]>>
                   ELSE /\ c.correlation_confidence = Num(0)
                        /\ c.correlation_method = "none"
                        /\ c.pdf_item = <<>>

\* a profile matched by its layer although its id and its hint match another
\* row, next to nothing else
C13_Witness ==
    /\ pc = "done"
    /\ has_dxf
    /\ \E j \in 1..Len(dxf_data.profiles) :
          /\ LayerIsIndexed(dxf_data.profiles[j])
          /\ IdMatches(dxf_data.profiles[j]) # {}
          /\ HintMatches(dxf_data.profiles[j]) # {}
          /\ correlations[j].correlation_method = "layer_to_reference"
          /\ correlations[j].pdf_item
                # <<pdf_data.bom_items[First(HintMatches(dxf_data.profiles[j]))]>>
          /\ result[1].line_items[j].correlation_confidence = Rat(9, 10)

\* a geometry input that holds nothing
EmptyGeometry == [success |-> "absent", profiles |-> <<>>, material_quantities |-> <<>>]

\* the geometry input of the run has no success flag, has success = false or
\* has no profile
NoGeometry == dxf_data.success \in {"absent", "false"} \/ Len(dxf_data.profiles) = 0

\* no line of the run comes from a profile or a block of the geometry input,
\* and the lines are those of the run on the empty geometry input
SameAsEmptyGeometry ==
    /\ \A j \in 1..Len(correlations) :
          /\ correlations[j].dxf_profile = <<>>
          /\ correlations[j].material_quantity = <<>>
    /\ \A j \in 1..Len(line_items) : line_items[j].quantity_source # "dxf"
    /\ line_items = BudgetLines(EmptyGeometry, pdf_data, surface_treatment, params)

AllLinesFromPdf ==
    \A j \in 1..Len(result[1].line_items) :
        result[1].line_items[j].quantity_source = "pdf"

CalculatedFor(id) ==
    /\ response # <<>>
    /\ response.request = "calculate_budget"
    /\ response.project_id = id
    /\ id \in DOMAIN projects_db

\* the project holds a drawing analysis that succeeded
UsableGeometry(project) ==
    \E j \in 1..Len(project.dxf_analyses) : Success(project.dxf_analyses[j])

\* the project holds a document analysis that succeeded
UsableSpecification(project) ==
    \E j \in 1..Len(project.pdf_analyses) : Success(project.pdf_analyses[j])

\* C12 (single rejection): a calculation request for an unknown project is
\* answered 404; for a known project it is answered 400 exactly when the
\* project has neither a usable drawing analysis nor a usable document
\* analysis, and otherwise 200 with the budget stored in the project and the
\* status "calculated".
C12_SingleRejection ==
    /\ (response # <<>> /\ response.request = "calculate_budget"
            /\ response.project_id \notin DOMAIN projects_db) => response.status = 404
    /\ \A id \in ProjectIds :
          CalculatedFor(id) =>
              LET project == projects_db[id]
                  usable == UsableGeometry(project) \/ UsableSpecification(project)
              IN  /\ response.status = 400 <=> ~usable
                  /\ usable => /\ response.status = 200
                               /\ project.budget = response.body
                               /\ project.status = "calculated"

\* C12, what the endpoint does: it answers 400 exactly when the project holds
\* no analysis at all, of a drawing or of a document, succeeded or failed.
C12_RejectsExactlyWithoutAnalyses ==
    \A id \in ProjectIds :
        CalculatedFor(id) =>
            (response.status = 400
                <=> (projects_db[id].dxf_analyses = <<>>
                        /\ projects_db[id].pdf_analyses = <<>>))

\* C12, the frame of a rejection: a calculation request answered 400 or 404
\* leaves every project as it was.
C12_RejectionChangesNothing ==
    [][(response' # <<>> /\ response'.request = "calculate_budget"
            /\ response'.status \in {400, 404}) => projects_db' = projects_db]_vars

\* every line of the dict has this quantity_source
LinesCarry(budget, source) ==
    \A j \in 1..Len(budget.line_items) : budget.line_items[j].quantity_source = source

\* C17 (data-source descriptor): the descriptor calculate_budget returns names
\* "dxf" exactly when the lines carry quantity_source "dxf" and "pdf" exactly
\* when they carry "pdf".
C17_DescriptorAgreesWithLines ==
    Returned =>
        /\ result[1].data_sources.quantity_source = "dxf" <=> LinesCarry(result[1], "dxf")
        /\ result[1].data_sources.quantity_source = "pdf" <=> LinesCarry(result[1], "pdf")

\* C17, the geometry half for the calculator: its descriptor names "dxf"
\* exactly when the lines carry "dxf".
C17_GeometryNamedWhenUsed ==
    Returned =>
        (result[1].data_sources.quantity_source = "dxf" <=> LinesCarry(result[1], "dxf"))

\* C17 for the descriptor the endpoint stores: it names "DXF" exactly when the
\* lines carry "dxf" and "PDF" exactly when they carry "pdf".
C17_EndpointDescriptorAgreesWithLines ==
    \A id \in DOMAIN projects_db :
        projects_db[id].budget # <<>> =>
            LET budget == projects_db[id].budget[1]
            IN  /\ budget.data_sources.quantity_source = "DXF" <=> LinesCarry(budget, "dxf")
                /\ budget.data_sources.quantity_source = "PDF" <=> LinesCarry(budget, "pdf")

\* the drawing of the run has success = true and a profile
GeometryAvailable == dxf_data.success = "true" /\ Len(dxf_data.profiles) > 0

\* the aggregates of the drawing counted from block inserts, in input order
Blocks == SelectSeq(dxf_data.material_quantities, LAMBDA mq : mq.source = "block_count")

\* C18 (one line per linkage): with geometry available the result holds one
\* line per profile, in input order, followed by one line per aggregate whose
\* source is "block_count", those tagged method "block_count"; line_id is the
\* position of the line, 1..n; BOM rows add no lines.
C18_OneLinePerLinkage ==
    (Returned /\ GeometryAvailable) =>
        LET lines == result[1].line_items
            n == Len(dxf_data.profiles)
        IN  /\ Len(lines) = n + Len(Blocks)
            /\ \A j \in 1..n :
                  /\ lines[j].profile_id = dxf_data.profiles[j].profile_id
                  /\ lines[j].correlation_method # "block_count"
            /\ \A j \in 1..Len(Blocks) :
                  /\ lines[n + j].correlation_method = "block_count"
                  /\ lines[n + j].reference = Blocks[j].profile_reference
                  /\ lines[n + j].profile_id = NoneStr
            /\ \A j \in 1..Len(lines) : lines[j].line_id = j

\* C18: a returned run with a profile, a block, an aggregate that is not a
\* block and more BOM rows than lines
C18_Witness ==
    /\ Returned
    /\ GeometryAvailable
    /\ Blocks # <<>>
    /\ Len(Blocks) < Len(dxf_data.material_quantities)
    /\ Len(pdf_data.bom_items) > Len(result[1].line_items)
    /\ Len(result[1].line_items) = Len(dxf_data.profiles) + Len(Blocks)

\* line j of the run as it is handed to _calculate_line_costs
Unpriced(j) ==
    ApplyGeometry(NewLine(correlations[j], j, surface_treatment), correlations[j])

\* line j is priced by the formulas, not from the catalog
OnFormulaPath(j) == CatalogProfile(Unpriced(j)) = <<>>

\* the weight of the chain of C19 for a line, `length` being the length its
\* first branch multiplies by
ChainWeight(line, length) ==
    LET thickness == IF line.thickness_mm = NoneNum \/ line.thickness_mm.n = 0
                     THEN Num(2) ELSE line.thickness_mm
        volume(a, b, c) == RMul(RMul(a, b), c)
    IN  IF RLt(Num(0), line.weight_kg) THEN line.weight_kg
        ELSE IF RLt(Num(0), line.area_mm2)
        THEN RMul(RDiv(volume(line.perimeter_mm, thickness, length), Num(1000000000)),
                  Num(2700))
        ELSE IF RLt(Num(0), line.perimeter_mm)
        THEN RMul(RDiv(volume(line.perimeter_mm, thickness, thickness), Num(1000000000)),
                  Num(2700))
        ELSE IF RLt(Num(0), line.length_mm)
        THEN RMul(RDiv(line.length_mm, Num(1000)), Rat(1, 2))
        ELSE Rat(1, 2)

\* the line has no weight, area, perimeter or length
NoMeasures(line) ==
    /\ ~RLt(Num(0), line.weight_kg)
    /\ ~RLt(Num(0), line.area_mm2)
    /\ ~RLt(Num(0), line.perimeter_mm)
    /\ ~RLt(Num(0), line.length_mm)

\* C19 as the claim states it: the first branch multiplies by the length of
\* the line.
C19_WeightFallbackChain_AsStated ==
    \A j \in 1..Len(line_items) :
        OnFormulaPath(j) =>
            /\ line_items[j].weight_kg = ChainWeight(Unpriced(j), Unpriced(j).length_mm)
            /\ NoMeasures(Unpriced(j)) => line_items[j].length_mm = Num(1000)

\* C19 (weight fallback chain, formula path): a weight > 0 supplied by the
\* geometry is kept; otherwise with area > 0 the weight is perimeter x
\* thickness x max(length, 1000) / 1e9 x 2700, else with perimeter > 0 it is
\* perimeter x thickness x thickness / 1e9 x 2700, else with length > 0 it is
\* length / 1000 x 0.5, else 0.5 with the length set to 1000; thickness is 2
\* when the line has none or 0.
C19_WeightFallbackChain ==
    \A j \in 1..Len(line_items) :
        OnFormulaPath(j) =>
            /\ line_items[j].weight_kg
                   = ChainWeight(Unpriced(j), RMax(Unpriced(j).length_mm, Num(1000)))
            /\ NoMeasures(Unpriced(j)) => line_items[j].length_mm = Num(1000)

\* C19: a line priced by the formulas that came with an area, no weight and a
\* length under a metre
C19_Witness ==
    \E j \in 1..Len(line_items) :
        /\ OnFormulaPath(j)
        /\ ~RLt(Num(0), Unpriced(j).weight_kg)
        /\ RLt(Num(0), Unpriced(j).area_mm2)
        /\ RLt(Unpriced(j).length_mm, Num(1000))
        /\ RLt(Num(0), line_items[j].weight_kg)

\* the number of features of type 'hole' of the profile of a correlation, 0
\* without profile
HolesOf(correlation) ==
    IF correlation.dxf_profile = <<>> THEN 0
    ELSE Cardinality({k \in 1..Len(correlation.dxf_profile[1].features) :
                         correlation.dxf_profile[1].features[k] = "hole"})

\* the complexity of the profile of a correlation, 1.0 without profile
ComplexityOf(correlation) ==
    IF correlation.dxf_profile = <<>> THEN Num(1)
    ELSE correlation.dxf_profile[1].complexity_score

\* the labor cost of C20
LaborFormula(holes_count, complexity, quantity, p) ==
    RMul(RDiv(RMul(RAdd(RAdd(p.cutting_time_mins,
                             RMul(Num(holes_count), p.machining_time_per_hole_mins)),
                        RAdd(RMul(RSub(complexity, Num(1)), Num(5)),
                             p.assembly_time_per_component_mins)),
                   Num(quantity)),
              Num(60)),
         p.labor_rate_eur_hr)

\* the line calculate_budget prices for ShortProfile alone (two holes,
\* complexity 1.0, one piece) with the default parameters
ExampleLine ==
    PricedLine(CorrelateProfileWithPdf(ShortProfile, BuildPdfLookup(<<>>), <<>>, <<>>),
               1, "none", DefaultParameters)[1]

\* C20 (labor cost, formula path): labor_cost = ((cutting time + holes x
\* per-hole time + (complexity - 1) x 5 + assembly time) x quantity / 60) x
\* hourly rate, holes being the 'hole' features of the profile (0 without
\* geometry); with the default parameters a line with 2 holes, complexity 1.0
\* and quantity 1 gets (2 + 10 + 0 + 8) / 60 x 35.
C20_LaborCost ==
    /\ \A j \in 1..Len(line_items) :
          OnFormulaPath(j) =>
              line_items[j].labor_cost
                  = LaborFormula(HolesOf(correlations[j]), ComplexityOf(correlations[j]),
                                 line_items[j].quantity, params)
    /\ line_items # <<>> =>
          /\ ExampleLine.holes_count = 2 /\ ExampleLine.quantity = 1
          /\ ExampleLine.labor_cost = RMul(Rat(2 + 10 + 0 + 8, 60), Num(35))

\* C20: a line priced by the formulas with a hole, complexity above 1, more
\* than one piece and a labor cost
C20_Witness ==
    \E j \in 1..Len(line_items) :
        /\ OnFormulaPath(j)
        /\ HolesOf(correlations[j]) >= 1
        /\ RLt(Num(1), ComplexityOf(correlations[j]))
        /\ line_items[j].quantity >= 2
        /\ RLt(Num(0), line_items[j].labor_cost)

\* the dict a freshly constructed calculator returns for the inputs of the
\* call in progress
FreshResult == CalculateBudget(dxf_data, pdf_data, surface_treatment, params)

\* C16 (run independence): the dict a second call on the same calculator
\* returns (lines, summary, correlation log) is the dict a fresh calculator
\* returns for the same inputs, and a dict returned earlier stays as it was
\* when it was returned.
C16_RunIndependence ==
    /\ \A k \in 1..Len(result) : result[k] = returned[k]
    /\ (Returned /\ Len(result) = MaxCalls) => result[MaxCalls] = FreshResult

\* C16, what carries over is the log only: lines and summary of a later call
\* are those of a fresh calculator, and lines and summary of an earlier dict
\* do not change.
C16_LinesAndSummaryIndependent ==
    /\ \A k \in 1..Len(result) :
          /\ result[k].line_items = returned[k].line_items
          /\ result[k].summary = returned[k].summary
    /\ (Returned /\ Len(result) = MaxCalls) =>
          /\ result[MaxCalls].line_items = FreshResult.line_items
          /\ result[MaxCalls].summary = FreshResult.summary

\* C16, the log of a later call holds the entries of the earlier calls before
\* its own.
C16_LogAccumulates ==
    (Returned /\ Len(result) = MaxCalls) =>
        result[MaxCalls].correlation_log
            = returned[1].correlation_log \o FreshResult.correlation_log

\* what find_profile returns for each term on the tables as constructed
ProfilesAsConstructed == [term \in SearchTerms |-> FindProfile(term)]

\* what find_cladding returns for each term and category on the tables as
\* constructed
CladdingAsConstructed ==
    [args \in {<<term, category>> : term \in CladdingTerms, category \in Categories} |->
        FindCladding(CostDatabase, args[1], args[2])]

\* C15 (catalog immutability): whatever was called, the four tables hold the
\* entries and rates CostDatabase() gave them, and a lookup returns what it
\* returns on the tables as constructed.
C15_CatalogImmutability ==
    /\ cost_db = CostDatabase
    /\ (found # <<>> /\ found.call = "find_profile") =>
          found.value = ProfilesAsConstructed[found.args[1]]
    /\ (found # <<>> /\ found.call = "find_cladding") =>
          found.value = CladdingAsConstructed[found.args]

\* C15: a budget was priced from the catalog, or a cost computed on one of
\* its entries
C15_Witness ==
    /\ found # <<>>
    /\ \/ /\ found.call = "calculate_budget"
          /\ \E j \in 1..Len(found.value.line_items) :
                found.value.line_items[j].notes # ""
       \/ /\ found.call = "calculate_steel_structure_cost"
          /\ Len(found.value.items) = 2

---------------------------------------------------------------------------
(* Properties of the summary, the catalog path and the specifications *)

\* the hours of the labor formula for a line: (cutting + holes x per-hole +
\* (complexity - 1) x 5 + assembly) minutes x quantity / 60
LaborHours(line, p) ==
    RDiv(RMul(RAdd(RAdd(p.cutting_time_mins,
                        RMul(Num(line.holes_count), p.machining_time_per_hole_mins)),
                   RAdd(RMul(RSub(line.complexity_score, Num(1)), Num(5)),
                        p.assembly_time_per_component_mins)),
              Num(line.quantity)),
         Num(60))

\* calculate_budget has returned
Done == pc = "done" /\ summary # <<>>

\* C21 as the claim states it: the hours of every summary are labor_total /
\* rate and equal the labor time of the formula summed over all lines.
C21_ProductionHours_AsStated ==
    Done =>
        /\ summary[1].estimated_production_hours
               = RDiv(summary[1].labor_total, params.labor_rate_eur_hr)
        /\ summary[1].estimated_production_hours
               = RSum([j \in 1..Len(line_items) |-> LaborHours(line_items[j], params)])

\* C21 (production hours): a run with hourly rate 0 returns no summary; the
\* hours of every returned summary are labor_total / hourly rate, which is
\* the labor time of the formula, (cutting + holes x per-hole + (complexity -
\* 1) x 5 + assembly) minutes x quantity / 60, summed over the lines priced
\* by the formulas, plus labor_cost / hourly rate for each line priced from
\* the catalog.
C21_ProductionHours ==
    /\ params.labor_rate_eur_hr.n = 0 => pc # "done"
    /\ Done =>
          /\ summary[1].estimated_production_hours
                 = RDiv(summary[1].labor_total, params.labor_rate_eur_hr)
          /\ summary[1].estimated_production_hours
                 = RSum([j \in 1..Len(line_items) |->
                            IF OnFormulaPath(j) THEN LaborHours(line_items[j], params)
                            ELSE RDiv(line_items[j].labor_cost,
                                      params.labor_rate_eur_hr)])

\* C21: a returned summary of two lines priced by the formulas, one of them
\* with holes, at an hourly rate other than the default
C21_Witness ==
    /\ Done
    /\ Len(line_items) = 2
    /\ \A j \in 1..2 : OnFormulaPath(j)
    /\ \E j \in 1..2 : line_items[j].holes_count > 0
    /\ params.labor_rate_eur_hr # Num(35)
    /\ RLt(Num(0), summary[1].estimated_production_hours)

\* the designation the text of a line names: the first match of the profile
\* patterns in its description, reference and profile id, NoneStr for none
NamedDesignation(line) ==
    ProfileName(<<line.description, line.reference,
                  IF StrTruthy(line.profile_id) THEN line.profile_id ELSE "">>)

\* the keys of the table of steel profiles, the normalized designations and
\* the codes, written without spaces
KeysWithoutSpaces ==
    [k \in 1..Len(steel_profiles) |-> ReplaceChars(steel_profiles[k][1], {" "}, "")]

\* the entries of the catalog a designation names: those under the normalized
\* designation as a key, written with or without its space
NamedEntries(name) ==
    IF name = NoneStr THEN {}
    ELSE {steel_profiles[k][2] :
             k \in {h \in 1..Len(steel_profiles) :
                       \E n \in {ReplaceChars(NormalizeProfileName(name), {" "}, "")} :
                           KeysWithoutSpaces[h] = n}}

\* line j was priced from the catalog entry `profile`
PricedFrom(j, profile) ==
    line_items[j] = CalculateFromCostDb(Unpriced(j), profile)

\* line j was priced by the formulas
PricedByFormula(j) ==
    line_items[j] = FormulaCosts(Unpriced(j), surface_treatment, params)

\* C22 (catalog miss): a line whose text names no designation, or a
\* designation that is no entry of the catalog, is priced by the formulas;
\* a line is priced from a catalog entry only if that entry is the
\* designation its text names.
C22_CatalogMiss ==
    \A j \in 1..Len(line_items) :
        \E named \in {NamedEntries(NamedDesignation(Unpriced(j)))} :
            /\ named = {} => PricedByFormula(j) /\ line_items[j].notes = ""
            /\ \A k \in 1..Len(steel_profiles) :
                  line_items[j].notes = "Custos FLYSTEEL: " \o steel_profiles[k][2].designation
                      => steel_profiles[k][2] \in named

\* a line whose text names no designation is priced by the formulas
C22_NoDesignationIsMiss ==
    \A j \in 1..Len(line_items) :
        NamedDesignation(Unpriced(j)) = NoneStr => PricedByFormula(j)

\* a line whose text names an entry of the catalog is priced from that entry
C22_NamedEntryPrices ==
    \A j \in 1..Len(line_items) :
        \A profile \in NamedEntries(NamedDesignation(Unpriced(j))) : PricedFrom(j, profile)

\* a line is priced from the catalog or by the formulas
C22_EitherPath ==
    \A j \in 1..Len(line_items) :
        \/ PricedByFormula(j) /\ line_items[j].notes = ""
        \/ \E k \in 1..Len(steel_profiles) : PricedFrom(j, steel_profiles[k][2])

\* a line whose text names a section size the catalog does not list and that
\* is in no key was priced by the formulas
C22_MissReached ==
    \E j \in 1..Len(line_items) :
        /\ NamedDesignation(Unpriced(j)) = "IPE 100"
        /\ PricedByFormula(j)

\* the first constraint of a type in list order, <<>> for none
FirstOfType(constraints, type) ==
    LET of_type == {k \in 1..Len(constraints) : constraints[k].constraint_type = type}
    IN  IF of_type = {} THEN <<>>
        ELSE <<constraints[CHOOSE k \in of_type : \A h \in of_type : k <= h]>>

Tier(importance) ==
    CASE importance = "high" -> 3 [] importance = "medium" -> 2 [] OTHER -> 1

\* the constraint of a type with the highest importance, the first of them in
\* list order, <<>> for none
HighestOfType(constraints, type) ==
    LET of_type == {k \in 1..Len(constraints) : constraints[k].constraint_type = type}
        top == {k \in of_type :
                   \A h \in of_type :
                       Tier(constraints[h].importance) <= Tier(constraints[k].importance)}
    IN  IF of_type = {} THEN <<>>
        ELSE <<constraints[CHOOSE k \in top : \A h \in top : k <= h]>>

\* what the record supplies, else the value of the constraint picked, else
\* what the record has (None or '')
Filled(supplied, picked) ==
    IF StrTruthy(supplied) THEN supplied
    ELSE IF picked # <<>> THEN picked[1].value
    ELSE supplied

\* the constraints of importance 'high' are collected, each as its type, its
\* value and the first `width` characters of its context
HighCollected(collected, constraints, width) ==
    LET high == {k \in 1..Len(constraints) : constraints[k].importance = "high"}
    IN  /\ Len(collected) = Cardinality(high)
        /\ \A k \in high :
              \E h \in 1..Len(collected) :
                  collected[h] = [type |-> constraints[k].constraint_type,
                                  value |-> constraints[k].value,
                                  context |-> Prefix(constraints[k].context, width)]

\* the linkages of a run that carry a geometry record
GeometryLinkages ==
    {j \in 1..Len(correlations) :
        correlations[j].dxf_profile # <<>> \/ correlations[j].material_quantity # <<>>}

\* the record attached to a linkage is a row of the bill of materials
RecordIsRow(j) ==
    correlations[j].pdf_item # <<>> =>
        \E k \in 1..Len(pdf_data.bom_items) : pdf_data.bom_items[k] = correlations[j].pdf_item[1]

\* material, thickness and certifications of the merged specification of
\* linkage j
MergedFromRecord(j) ==
    LET specs == correlations[j].specifications
        record == correlations[j].pdf_item
    IN  /\ RecordIsRow(j)
        /\ specs.thickness_mm = IF record # <<>> THEN record[1].thickness_mm ELSE NoneNum
        /\ specs.certifications
               = [k \in 1..Len(ConstraintsOfType(pdf_data.constraints, "certification")) |->
                     ConstraintsOfType(pdf_data.constraints, "certification")[k].value]

\* C23 as the claim states it: gaps are filled from the constraint of the
\* highest importance of the type, and the high constraints are collected with
\* their whole context.
C23_SpecificationMerge_AsStated ==
    \A j \in GeometryLinkages :
        LET specs == correlations[j].specifications
            record == correlations[j].pdf_item
            constraints == pdf_data.constraints
        IN  /\ MergedFromRecord(j)
            /\ specs.material
                   = Filled(IF record # <<>> THEN record[1].material ELSE NoneStr,
                            HighestOfType(constraints, "material_grade"))
            /\ specs.finish
                   = Filled(IF record # <<>> THEN record[1].finish ELSE NoneStr,
                            HighestOfType(constraints, "surface_treatment"))
            /\ \A k \in 1..Len(constraints) :
                  constraints[k].importance = "high" =>
                      \E h \in 1..Len(specs.constraints) :
                          specs.constraints[h] = [type |-> constraints[k].constraint_type,
                                                  value |-> constraints[k].value,
                                                  context |-> constraints[k].context]

\* C23 (specification merge): the merged specification of a geometry linkage
\* takes material, finish and thickness from the matched record when it
\* supplies them; a missing material (finish) is the value of the first
\* constraint in list order of type material_grade (surface_treatment);
\* certifications are the values of the certification constraints; every
\* constraint of importance 'high' is collected as type, value and the first
\* 100 characters of its context; the record is a row of the bill as it is.
C23_SpecificationMerge ==
    \A j \in GeometryLinkages :
        LET specs == correlations[j].specifications
            record == correlations[j].pdf_item
            constraints == pdf_data.constraints
        IN  /\ MergedFromRecord(j)
            /\ specs.material
                   = Filled(IF record # <<>> THEN record[1].material ELSE NoneStr,
                            FirstOfType(constraints, "material_grade"))
            /\ specs.finish
                   = Filled(IF record # <<>> THEN record[1].finish ELSE NoneStr,
                            FirstOfType(constraints, "surface_treatment"))
            /\ HighCollected(specs.constraints, constraints, 100)

\* C23: a geometry linkage whose record supplies neither material nor finish,
\* both filled from constraints, with a certification and a collected
\* constraint whose context was cut
C23_Witness ==
    \E j \in GeometryLinkages :
        LET specs == correlations[j].specifications
            record == correlations[j].pdf_item
        IN  /\ record # <<>> /\ record[1].material = NoneStr /\ record[1].finish = NoneStr
            /\ specs.material = "6063-T5" /\ specs.finish = "RAL 7016"
            /\ specs.certifications = <<"CE">>
            /\ \E h \in 1..Len(specs.constraints) : Len(specs.constraints[h].context) = 100

\* line j carries what the record attached to its linkage supplies, and a
\* finish the record or a surface-treatment constraint supplies
SnapshotOfRecord(j) ==
    LET line == line_items[j]
        record == correlations[j].pdf_item[1]
        treatments == FirstOfType(pdf_data.constraints, "surface_treatment")
    IN  /\ StrTruthy(record.material) => line.material = record.material
        /\ StrTruthy(record.finish) => line.finish = record.finish
        /\ record.thickness_mm # NoneNum => line.thickness_mm = record.thickness_mm
        /\ (~StrTruthy(record.finish) /\ treatments # <<>>) =>
              line.finish = treatments[1].value
        /\ (~StrTruthy(record.finish) /\ treatments = <<>>) =>
              line.finish = TreatmentToFinish(surface_treatment)

\* the lines of the specification-only path
SpecificationOnlyLines ==
    {j \in 1..Len(line_items) :
        correlations[j].correlation_method = "pdf_only" /\ correlations[j].pdf_item # <<>>}

\* the lines of geometry linkages with a record attached
MatchedGeometryLines ==
    {j \in 1..Len(line_items) : j \in GeometryLinkages /\ correlations[j].pdf_item # <<>>}

\* C24 (specification snapshot): every priced line with a specification
\* record attached, matched to a geometry record or the BOM row of the
\* specification-only path, has the material, finish and thickness the record
\* supplies; its finish is the readable name of the selected surface
\* treatment only when neither the record nor a constraint supplies one.
C24_SpecificationSnapshot ==
    \A j \in MatchedGeometryLines \cup SpecificationOnlyLines : SnapshotOfRecord(j)

\* the snapshot holds for the lines of geometry linkages
C24_GeometrySnapshot ==
    \A j \in MatchedGeometryLines : SnapshotOfRecord(j)

\* the lines of the specification-only path carry no material and no
\* thickness, and the readable name of the surface treatment as finish
C24_SpecificationOnlyCarriesNothing ==
    \A j \in SpecificationOnlyLines :
        /\ line_items[j].material = NoneStr
        /\ line_items[j].thickness_mm = NoneNum
        /\ line_items[j].finish = TreatmentToFinish(surface_treatment)

\* a line of a geometry linkage with the material, finish and thickness of
\* its record has been priced
C24_GeometryReached ==
    \E j \in MatchedGeometryLines :
        /\ line_items[j].material = "6063"
        /\ line_items[j].finish = "Anodizado"
        /\ line_items[j].thickness_mm = Num(20)

\* the confidence of a linkage of a method, `matched` telling whether a
\* specification record is attached; <<>> for a method that is none of the
\* nine
MethodConfidence(method, matched) ==
    CASE method = "layer_to_reference" -> <<Rat(9, 10)>>
      [] method = "profile_id_match" -> <<Rat(8, 10)>>
      [] method = "material_hint" -> <<Rat(6, 10)>>
      [] method = "none" -> <<Num(0)>>
      [] method = "block_count" -> <<IF matched THEN Rat(7, 10) ELSE Rat(5, 10)>>
      [] method = "pdf_only" -> <<Rat(5, 10)>>
      [] method = "constraint_extraction" -> <<Rat(3, 10)>>
      [] method = "dimension_extraction" -> <<Rat(25, 100)>>
      [] method = "placeholder" -> <<Rat(1, 10)>>
      [] OTHER -> <<>>

\* C25 (confidence and method): every linkage and every priced line has a
\* confidence in [0, 1] fixed by its method (layer_to_reference 0.9,
\* profile_id_match 0.8, material_hint 0.6, none 0.0, block_count 0.7 with a
\* matched record else 0.5, pdf_only 0.5, constraint_extraction 0.3,
\* dimension_extraction 0.25, placeholder 0.1); linkages with quantity_source
\* 'estimated' have a confidence within [0.1, 0.3]; the linkage of a profile
\* has method 'none' exactly when no specification record is attached.
C25_ConfidenceByMethod ==
    /\ \A j \in 1..Len(correlations) :
          LET c == correlations[j]
          IN  /\ <<c.correlation_confidence>>
                     = MethodConfidence(c.correlation_method, c.pdf_item # <<>>)
              /\ RLe(Num(0), c.correlation_confidence)
              /\ RLe(c.correlation_confidence, Num(1))
              /\ c.quantity_source = "estimated" =>
                    /\ RLe(Rat(1, 10), c.correlation_confidence)
                    /\ RLe(c.correlation_confidence, Rat(3, 10))
              /\ c.dxf_profile # <<>> =>
                    (c.correlation_method = "none" <=> c.pdf_item = <<>>)
    /\ \A j \in 1..Len(line_items) :
          /\ line_items[j].correlation_confidence = correlations[j].correlation_confidence
          /\ line_items[j].correlation_method = correlations[j].correlation_method
    /\ \A r \in 1..Len(returned) :
          \A j \in 1..Len(returned[r].line_items) :
              <<returned[r].line_items[j].correlation_confidence>>
                  = MethodConfidence(returned[r].line_items[j].correlation_method,
                                     returned[r].line_items[j].correlation_confidence
                                         = Rat(7, 10))

\* C25: a returned run with a profile no record matches and a block with and
\* a block without a matched record
C25_Witness ==
    /\ pc = "done"
    /\ \E j \in 1..Len(line_items) :
          /\ correlations[j].dxf_profile # <<>>
          /\ line_items[j].correlation_method = "none"
          /\ line_items[j].correlation_confidence = Num(0)
    /\ \E j \in 1..Len(line_items) :
          /\ line_items[j].correlation_method = "block_count"
          /\ correlations[j].pdf_item = <<>>
          /\ line_items[j].correlation_confidence = Rat(5, 10)

---------------------------------------------------------------------------
(* The loop of calculate_budget with its iterations taken in any order *)

\* the iteration for linkage j numbering its line by the lines priced so far
LineOfLinkageNumberedByCompletion(j, priced) ==
    PricedLine(correlations[j], Len(priced) + 1, surface_treatment, params)

\* the iteration of the loop of calculate_budget for linkage j, `priced`
\* being the lines appended so far: the line is built from correlations[j],
\* the surface treatment and self.params, its line_id is the position of the
\* linkage
LineOfLinkage(j, priced) ==
    PricedLine(correlations[j], j, surface_treatment, params)

\* the linkages no line has been priced for
Pending == {j \in 1..Len(correlations) :
               \A k \in 1..Len(line_items) : line_items[k].line_id # j}

\* one iteration of the loop, for any pending linkage
PriceAnyLine ==
    /\ pc = "pricing"
    /\ \E j \in Pending :
          /\ ~NewLineRaises(correlations[j])
          /\ line_items' = line_items \o LineOfLinkage(j, line_items)
    /\ line_id' = line_id + 1
    /\ pos' = pos + 1
    /\ UNCHANGED <<params, summary, correlation_log, dxf_data, pdf_data,
                   surface_treatment, has_dxf, has_pdf, correlations, result, returned,
                   pc, api_vars, cost_db, found>>

AnyOrderNext == Correlate \/ PriceAnyLine \/ Return \/ RaiseInSummary

AnyOrderSpec == Init /\ [][AnyOrderNext]_vars

Components(line) ==
    <<line.raw_material_cost, line.transformation_cost, line.surface_treatment_cost,
      line.labor_cost, line.accessories_cost>>

\* the seven catalog costs of line j for `quantity` pieces, each under the
\* line component it is assigned to
CatalogComponents(j, profile, quantity) ==
    LET length_m == IF RLt(Num(0), Unpriced(j).length_mm)
                    THEN RDiv(Unpriced(j).length_mm, Num(1000)) ELSE Num(1)
        weight == RMul(length_m, profile.weight_per_meter)
        per_kg(price) == RMul(RMul(weight, price), quantity)
    IN  <<per_kg(profile.price_material),
          per_kg(profile.price_fabrication),
          RMul(RMul(RMul(length_m, profile.area_per_meter), profile.price_painting),
               quantity),
          RAdd(per_kg(profile.price_assembly), per_kg(profile.price_lifting)),
          RAdd(per_kg(profile.price_consumables), per_kg(profile.price_transport))>>

\* C27 (component sum): on every priced line total_cost is the sum of the
\* five components; on a line priced from the catalog the components are the
\* seven catalog costs, material, fabrication, painting, assembly + lifting,
\* consumables + transport, times the quantity; the line totals of a returned
\* run sum to the five component totals of its summary.
C27_ComponentSum ==
    /\ \A j \in 1..Len(line_items) :
          /\ line_items[j].total_cost = RSum(Components(line_items[j]))
          /\ \A profile \in {e[1] : e \in {CatalogProfile(Unpriced(j))} \ {<<>>}} :
                Components(line_items[j])
                    = CatalogComponents(j, profile, Num(line_items[j].quantity))
    /\ Done =>
          RSum([j \in 1..Len(line_items) |-> line_items[j].total_cost])
              = RSum(ComponentTotals(summary[1]))

\* C27: a returned run with a line priced from the catalog, of more than one
\* piece, and a line priced by the formulas
C27_Witness ==
    /\ Done
    /\ \E j \in 1..Len(line_items) :
          /\ ~OnFormulaPath(j)
          /\ line_items[j].quantity > 1
          /\ RLt(Num(0), line_items[j].labor_cost)
    /\ \E j \in 1..Len(line_items) :
          OnFormulaPath(j) /\ RLt(Num(0), line_items[j].total_cost)

---------------------------------------------------------------------------
(* The input dicts of correlate_data and calculate_budget after the call *)

\* a profile or aggregate dict with the estimates of its line written into it
GeometryRecordWithEstimates(record, line) ==
    IF "weight_kg" \in DOMAIN record
    THEN [record EXCEPT !.weight_kg = line.weight_kg, !.length_mm = line.length_mm,
                        !.perimeter_mm = line.perimeter_mm]
    ELSE [record EXCEPT !.unit_length_mm = line.length_mm]

\* a profile or aggregate dict after the iteration of the loop of
\* calculate_budget that priced `line` for it: the iteration reads the dict
\* with get(); the estimates of the formula path are assigned to the line
GeometryRecordAfterPricing(record, line) == record

\* a profile or aggregate dict after correlate_data read it
GeometryRecordAfterCorrelate(record) == record

\* a BOM row, constraint or dimension dict after correlate_data indexed it
\* and the loop of calculate_budget read it
SpecificationRecordAfterCall(record) == record

\* the specification input after either call
PdfAfterCall(pdf) ==
    [pdf EXCEPT
        !.bom_items = [k \in 1..Len(pdf.bom_items) |->
                          SpecificationRecordAfterCall(pdf.bom_items[k])],
        !.constraints = [k \in 1..Len(pdf.constraints) |->
                            SpecificationRecordAfterCall(pdf.constraints[k])],
        !.dimension_specs = [k \in 1..Len(pdf.dimension_specs) |->
                                SpecificationRecordAfterCall(pdf.dimension_specs[k])]]

\* the geometry input after correlate_data
DxfAfterCorrelateData(dxf) ==
    [dxf EXCEPT
        !.profiles = [k \in 1..Len(dxf.profiles) |->
                         GeometryRecordAfterCorrelate(dxf.profiles[k])],
        !.material_quantities =
            [k \in 1..Len(dxf.material_quantities) |->
                GeometryRecordAfterCorrelate(dxf.material_quantities[k])]]

\* the geometry input after calculate_budget priced `lines`: with geometry
\* available line k is the line of profile k and the lines after the profiles
\* are those of the block aggregates in list order
DxfAfterCalculateBudget(dxf, lines) ==
    LET correlated == DxfAfterCorrelateData(dxf)
        profiles == correlated.profiles
        aggregates == correlated.material_quantities
        blocks_to(k) == Cardinality({h \in 1..k : aggregates[h].source = "block_count"})
    IN  IF ~(Success(dxf) /\ Len(profiles) > 0) THEN correlated
        ELSE [correlated EXCEPT
                 !.profiles =
                     [k \in 1..Len(profiles) |->
                         IF k <= Len(lines)
                         THEN GeometryRecordAfterPricing(profiles[k], lines[k])
                         ELSE profiles[k]],
                 !.material_quantities =
                     [k \in 1..Len(aggregates) |->
                         IF /\ aggregates[k].source = "block_count"
                            /\ Len(profiles) + blocks_to(k) <= Len(lines)
                         THEN GeometryRecordAfterPricing(
                                  aggregates[k], lines[Len(profiles) + blocks_to(k)])
                         ELSE aggregates[k]]]

\* the inputs of the watched calls: the larger projects, the drawings of one
\* profile, and those drawings with a bill of one row
FrameInputs ==
    LargerInputs \cup CatalogInputs
    \cup {<<[success |-> "true", profiles |-> <<profile>>, material_quantities |-> <<>>],
             [success |-> "true", bom_items |-> <<BomRows[b]>>, constraints |-> <<>>,
              dimension_specs |-> <<>>]>> : profile \in ProfileChoices, b \in 1..2}

\* a new calculator with one of the parameter choices of RepeatParameters
FrameInit ==
    /\ Init
    /\ params \in RepeatParameters

\* correlations = calculator.correlate_data(dxf_data, pdf_data)
CallCorrelateData ==
    /\ \E input \in FrameInputs :
          /\ found' = Found("correlate_data", input, CorrelateData(input[1], input[2]))
          /\ dxf_data' = DxfAfterCorrelateData(input[1])
          /\ pdf_data' = PdfAfterCall(input[2])
    /\ UNCHANGED <<params, line_items, summary, correlation_log, surface_treatment,
                   has_dxf, has_pdf, correlations, line_id, pos, result, returned, pc,
                   api_vars, cost_db>>

\* budget = calculator.calculate_budget(dxf_data, pdf_data, treatment) on a
\* new calculator; the value tells whether the call raised, and the line
\* dicts returned
CallCalculateBudgetOnInputs ==
    /\ \E input \in FrameInputs, treatment \in TreatmentChoices :
          IF CalculateBudgetRaises(input[1], input[2], params)
          THEN /\ found' = Found("calculate_budget", input,
                                 [raised |-> TRUE, line_items |-> <<>>])
               /\ dxf_data' = DxfAfterCorrelateData(input[1])
               /\ pdf_data' = PdfAfterCall(input[2])
          ELSE \E lines \in {PriceLines(CorrelateData(input[1], input[2]), 1, treatment,
                                        params)} :
                  /\ found' = Found("calculate_budget", input,
                                    [raised |-> FALSE,
                                     line_items |-> [j \in 1..Len(lines) |->
                                                        LineToDict(lines[j])]])
                  /\ dxf_data' = DxfAfterCalculateBudget(input[1], lines)
                  /\ pdf_data' = PdfAfterCall(input[2])
    /\ UNCHANGED <<params, line_items, summary, correlation_log, surface_treatment,
                   has_dxf, has_pdf, correlations, line_id, pos, result, returned, pc,
                   api_vars, cost_db>>

FrameNext == CallCorrelateData \/ CallCalculateBudgetOnInputs

FrameSpec == FrameInit /\ [][FrameNext]_vars

\* C28 (inputs are not modified): after correlate_data and after
\* calculate_budget the geometry input and the specification input have the
\* content they were passed with, every profile, aggregate, BOM row,
\* constraint and dimension record included.
C28_InputsNotModified ==
    (found # <<>> /\ found.call \in {"correlate_data", "calculate_budget"}) =>
        /\ dxf_data = found.args[1]
        /\ pdf_data = found.args[2]

\* C28: after a calculate_budget whose drawing has a profile without weight
\* and whose bill has a row, the line of the profile priced
C28_Witness ==
    /\ found # <<>>
    /\ found.call = "calculate_budget"
    /\ ~found.value.raised
    /\ Len(found.args[1].profiles) > 0
    /\ found.args[1].profiles[1].weight_kg = Num(0)
    /\ Len(found.args[2].bom_items) > 0
    /\ Len(found.value.line_items) > 0
    /\ found.value.line_items[1].quantity_source = "dxf"
---------------------------------------------------------------------------
(* Lookups of the catalog of steel profiles by the names of its entries *)

\* the ways a designation is written in a search term
Writings == {"as listed", "lower case", "repeated whitespace", "asterisk", "times sign"}

\* s with every space written twice
RECURSIVE DoubledSpaces(_)
DoubledSpaces(s) ==
    IF s = "" THEN ""
    ELSE (IF Ch(s, 1) = " " THEN "  " ELSE Ch(s, 1)) \o DoubledSpaces(SubSeq(s, 2, Len(s)))

\* the designation in the writing w
Written(w, designation) ==
    CASE w = "as listed" -> designation
      [] w = "lower case" -> Lower(designation)
      [] w = "repeated whitespace" -> " " \o DoubledSpaces(designation) \o "\t "
      [] w = "asterisk" -> ReplaceChars(designation, {"x", "X"}, "*")
      [] w = "times sign" -> ReplaceChars(designation, {"x", "X"}, "×")

\* the entry the row k of profiles_data makes
Entry(k) == SteelProfile(profiles_data[k])

\* cost_db.find_profile(term), term a designation of the catalog in some writing
LookupDesignation ==
    /\ \E k \in 1..Len(profiles_data), w \in Writings :
          \E term \in {Written(w, profiles_data[k][2])} :
             found' = Found("find_profile", <<term>>,
                            FindProfileIn(cost_db.steel_profiles, term))
    /\ UNCHANGED <<calculator_vars, api_vars, cost_db>>

\* cost_db.find_profile(code), code a code of the catalog
LookupCode ==
    /\ \E k \in 1..Len(profiles_data) :
          found' = Found("find_profile", <<profiles_data[k][1]>>,
                         FindProfileIn(cost_db.steel_profiles, profiles_data[k][1]))
    /\ UNCHANGED <<calculator_vars, api_vars, cost_db>>

LookupNext == LookupDesignation \/ LookupCode \/ CallGetAllProfiles

LookupSpec == CatalogInit /\ [][LookupNext]_vars

\* the rows whose designation in some writing, or whose code, is the term
RowsNamedBy(term) ==
    {k \in 1..Len(profiles_data) :
        \/ profiles_data[k][1] = term
        \/ \E w \in Writings : Written(w, profiles_data[k][2]) = term}

\* no two rows of profiles_data have the same normalized designation, the same
\* code, or a code that is the normalized designation of a row
DistinctNames ==
    \A k, h \in 1..Len(profiles_data) :
        /\ k # h => /\ NormalizeProfileName(profiles_data[k][2])
                          # NormalizeProfileName(profiles_data[h][2])
                    /\ profiles_data[k][1] # profiles_data[h][1]
        /\ profiles_data[k][1] # NormalizeProfileName(profiles_data[h][2])

\* C29: find_profile of the designation of an entry of the catalog, as listed,
\* in lower case, with repeated whitespace, or with '*' or the times sign for
\* 'x', and find_profile of its code, return that entry; no two entries share
\* a normalized designation or a code, and get_all_profiles returns each entry
\* exactly once
C29_LookupRoundTrip ==
    /\ (found # <<>> /\ found.call = "find_profile") =>
          \A k \in RowsNamedBy(found.args[1]) : found.value = <<Entry(k)>>
    /\ (found # <<>> /\ found.call = "get_all_profiles") =>
          /\ DistinctNames
          /\ Len(found.value) = Len(profiles_data)
          /\ \A k \in 1..Len(profiles_data) :
                Cardinality({j \in 1..Len(found.value) : found.value[j] = Entry(k)}) = 1

\* a designation written with the times sign for x has been looked
\* up, and the entry has come back
C29_Witness ==
    /\ found # <<>>
    /\ found.call = "find_profile"
    /\ found.args[1] = "RHS 100×50×3"
    /\ found.value # <<>>

---------------------------------------------------------------------------
(* The life of a project in main.py: created, loaded, calculated, read,
   exported, deleted *)

\* the guards the endpoints that read the stored budget begin with: the
\* status of the HTTPException raised, or 200 when the handler goes on
BudgetGuardByStatus(db, id) ==
    IF id \notin DOMAIN db THEN 404
    ELSE IF db[id].status # "calculated" THEN 400
    ELSE 200

BudgetGuard(db, id) ==
    IF id \notin DOMAIN db THEN 404
    ELSE IF db[id].budget = <<>> THEN 400
    ELSE 200

RequestIds == ProjectIds \cup {UnknownId}

\* GET /api/projects/{project_id}
GetProject ==
    /\ \E id \in RequestIds :
          response' = IF id \notin DOMAIN projects_db
                      THEN Response("get_project", id, 404, <<>>)
                      ELSE Response("get_project", id, 200, <<projects_db[id]>>)
    /\ UNCHANGED <<calculator_vars, projects_db, cost_db, found>>

\* DELETE /api/projects/{project_id}
DeleteProject ==
    /\ \E id \in RequestIds :
          IF id \notin DOMAIN projects_db
          THEN /\ response' = Response("delete_project", id, 404, <<>>)
               /\ UNCHANGED projects_db
          ELSE /\ projects_db' = IF DOMAIN projects_db = {id} THEN <<>>
                                 ELSE [k \in DOMAIN projects_db \ {id} |-> projects_db[k]]
               /\ response' = Response("delete_project", id, 200, <<>>)
    /\ UNCHANGED <<calculator_vars, cost_db, found>>

\* GET /api/projects/{project_id}/dxf-analysis
GetDxfAnalysis ==
    /\ \E id \in RequestIds :
          response' =
              IF id \notin DOMAIN projects_db
              THEN Response("get_dxf_analysis", id, 404, <<>>)
              ELSE IF projects_db[id].merged_dxf_analysis # <<>>
              THEN Response("get_dxf_analysis", id, 200, projects_db[id].merged_dxf_analysis)
              ELSE IF projects_db[id].dxf_analyses # <<>>
              THEN Response("get_dxf_analysis", id, 200, <<projects_db[id].dxf_analyses[1]>>)
              ELSE Response("get_dxf_analysis", id, 404, <<>>)
    /\ UNCHANGED <<calculator_vars, projects_db, cost_db, found>>

\* GET /api/projects/{project_id}/pdf-analysis
GetPdfAnalysis ==
    /\ \E id \in RequestIds :
          response' =
              IF id \notin DOMAIN projects_db
              THEN Response("get_pdf_analysis", id, 404, <<>>)
              ELSE IF projects_db[id].merged_pdf_analysis # <<>>
              THEN Response("get_pdf_analysis", id, 200, projects_db[id].merged_pdf_analysis)
              ELSE IF projects_db[id].pdf_analyses # <<>>
              THEN Response("get_pdf_analysis", id, 200, <<projects_db[id].pdf_analyses[1]>>)
              ELSE Response("get_pdf_analysis", id, 404, <<>>)
    /\ UNCHANGED <<calculator_vars, projects_db, cost_db, found>>

\* GET /api/projects/{project_id}/all-analyses
GetAllAnalyses ==
    /\ \E id \in RequestIds :
          response' =
              IF id \notin DOMAIN projects_db
              THEN Response("get_all_analyses", id, 404, <<>>)
              ELSE Response("get_all_analyses", id, 200,
                            <<[dxf_analyses |-> projects_db[id].dxf_analyses,
                               pdf_analyses |-> projects_db[id].pdf_analyses,
                               merged_dxf |-> projects_db[id].merged_dxf_analysis,
                               merged_pdf |-> projects_db[id].merged_pdf_analysis]>>)
    /\ UNCHANGED <<calculator_vars, projects_db, cost_db, found>>

\* GET /api/projects/{project_id}/dxf-preview (a project has a file of type
\* dxf when it has a DXF analysis; the drawing is left out)
GetDxfPreview ==
    /\ \E id \in RequestIds :
          response' =
              IF id \notin DOMAIN projects_db
              THEN Response("get_dxf_preview", id, 404, <<>>)
              ELSE IF projects_db[id].dxf_analyses = <<>>
              THEN Response("get_dxf_preview", id, 404, <<>>)
              ELSE Response("get_dxf_preview", id, 200, <<>>)
    /\ UNCHANGED <<calculator_vars, projects_db, cost_db, found>>

\* the values of target_margin_pct
TargetMargins == {Num(25), Num(0)}

\* POST /api/projects/{project_id}/simulate-margin (the figures of the
\* answer, taken from the rounded amounts of the summary, are left out)
SimulateMargin ==
    /\ \E id \in RequestIds, target_margin_pct \in TargetMargins :
          response' =
              Response("simulate_margin", id, BudgetGuard(projects_db, id),
                       IF BudgetGuard(projects_db, id) = 200
                       THEN <<[target_margin_pct |-> target_margin_pct]>>
                       ELSE <<>>)
    /\ UNCHANGED <<calculator_vars, projects_db, cost_db, found>>

\* GET /api/projects/{project_id}/export/json: the file holds the budget
ExportJson ==
    /\ \E id \in RequestIds :
          response' =
              Response("export_json", id, BudgetGuard(projects_db, id),
                       IF BudgetGuard(projects_db, id) = 200
                       THEN projects_db[id].budget
                       ELSE <<>>)
    /\ UNCHANGED <<calculator_vars, projects_db, cost_db, found>>

\* item.get("reference", "-")[:15] and item.get("description", "-")[:20] of
\* export_pdf raise on None
ExportPdfRaises(budget) ==
    \E j \in 1..Len(budget.line_items) :
        \/ budget.line_items[j].reference = NoneStr
        \/ budget.line_items[j].description = NoneStr

\* GET /api/projects/{project_id}/export/pdf (the document is left out)
ExportPdf ==
    /\ \E id \in RequestIds :
          response' =
              Response("export_pdf", id,
                       IF BudgetGuard(projects_db, id) # 200
                       THEN BudgetGuard(projects_db, id)
                       ELSE IF ExportPdfRaises(projects_db[id].budget[1]) THEN 500
                       ELSE 200,
                       <<>>)
    /\ UNCHANGED <<calculator_vars, projects_db, cost_db, found>>

\* GET /api/projects/{project_id}/export/csv: the file holds a row for each
\* line of the budget
ExportCsv ==
    /\ \E id \in RequestIds :
          response' =
              Response("export_csv", id, BudgetGuard(projects_db, id),
                       IF BudgetGuard(projects_db, id) = 200
                       THEN [j \in 1..Len(projects_db[id].budget[1].line_items) |->
                                LET item == projects_db[id].budget[1].line_items[j]
                                IN  <<item.line_id, item.reference, item.description,
                                      item.quantity, item.quantity_source,
                                      item.correlation_confidence>>]
                       ELSE <<>>)
    /\ UNCHANGED <<calculator_vars, projects_db, cost_db, found>>

LifecycleNext ==
    \/ CreateProject
    \/ GetProject
    \/ DeleteProject
    \/ UploadFiles
    \/ GetDxfAnalysis
    \/ GetPdfAnalysis
    \/ GetAllAnalyses
    \/ GetDxfPreview
    \/ CalculateBudgetEndpoint
    \/ SimulateMargin
    \/ ExportJson
    \/ ExportPdf
    \/ ExportCsv

LifecycleSpec == ApiInit /\ [][LifecycleNext]_vars

BudgetRequests == {"simulate_margin", "export_json", "export_pdf", "export_csv"}

HasBudget(db, id) == id \in DOMAIN db /\ db[id].budget # <<>>

\* a project whose status is 'calculated' has a budget
CalculatedHasBudget ==
    \A id \in DOMAIN projects_db :
        projects_db[id].status = "calculated" => projects_db[id].budget # <<>>

\* one request: a budget appears only by a calculate request on the project
\* that is answered 200 with it; simulate-margin and the exports answer 400
\* exactly when the project is there without a budget; a request on an id that
\* is not in projects_db is answered 404
RequestStep ==
    /\ \A id \in ProjectIds :
          (HasBudget(projects_db', id) /\ ~HasBudget(projects_db, id)) =>
              /\ response'.request = "calculate_budget"
              /\ response'.project_id = id
              /\ response'.status = 200
              /\ response'.body = projects_db'[id].budget
    /\ response'.request \in BudgetRequests =>
          (response'.status = 400 <=>
              /\ response'.project_id \in DOMAIN projects_db
              /\ projects_db[response'.project_id].budget = <<>>)
    /\ (response'.request # "create_project"
        /\ response'.project_id \notin DOMAIN projects_db) => response'.status = 404

\* C30: after any sequence of create, upload, calculate, delete and read
\* requests, a project whose status is 'calculated' has a stored budget; a
\* budget is stored only by a successful calculate request on the project;
\* simulate-margin and the JSON, PDF and CSV exports answer 400 exactly when
\* the project exists and its budget is null; every project endpoint answers
\* 404 for an id that is not in projects_db, never created or deleted
C30_ProjectLifecycle == [](CalculatedHasBudget) /\ [][RequestStep]_vars

\* simulate-margin has answered 400 on a project that was calculated, deleted
\* and made again, or never calculated, and has files
C30_Witness ==
    /\ response # <<>>
    /\ response.request = "simulate_margin"
    /\ response.status = 400
    /\ response.project_id \in DOMAIN projects_db
    /\ projects_db[response.project_id].status = "files_uploaded"

====
